---- MODULE Spec2Model ----
(***************************************************************************)
(* ScamRadar backend: the detection pipeline.                              *)
(*                                                                         *)
(* The model follows backend/app/services/rarible_client.py (collection    *)
(* enrichment and its process-wide negative cache),                        *)
(* backend/app/services/etherscan_client.py (the three category fetches),  *)
(* backend/app/services/detection_service.py and                           *)
(* backend/app/routers/detect.py (the two request flows).                  *)
(*                                                                         *)
(* The process is one asyncio event loop: code between two awaits runs     *)
(* atomically, so every action below is the code from one suspension point *)
(* to the next.  One account request (batch enrichment) and one           *)
(* transaction request (single enrichment) can be in flight at a time, and *)
(* each endpoint serves its requests one after the other.                  *)
(*                                                                         *)
(* Specifications: Spec (overlapping enrichment calls), SpecDetect (the     *)
(* two request flows), and, one function at a time, SpecPool (key pools),  *)
(* SpecFetch (get_account_transactions), SpecPaging                        *)
(* (_fetch_token_transactions), SpecFeatures                               *)
(* (backend/app/services/feature_engineer.py), SpecScale (scale_features   *)
(* of backend/app/services/model_loader.py), SpecExplain                   *)
(* (backend/app/services/fast_feature_explainer.py), SpecPending (the      *)
(* pending-transaction branch of the router), SpecPrice                    *)
(* (_extract_eth_value) and SpecShap                                       *)
(* (backend/app/services/shap_explainer.py).                               *)
(*                                                                         *)
(* Prices are floats in the source; the model uses integers and \div, and  *)
(* picks upstream values for which the divisions are exact.                *)
(***************************************************************************)
EXTENDS Integers, Sequences, FiniteSets, TLC

\* ------------------------------------------------------------------ bounds
MaxTxns == 2       \* longest record list handed to the batch enrichment
MaxCalls == 2      \* enrichment calls started in one behaviour

Contracts == {"0xa", "0xb"}          \* non-empty contract addresses
\* The kinds of record the enrichment is called with: <<tx_type, contract>>.
\* The enrichment only tells ERC-20 from the rest and an empty contract from
\* a non-empty one, and the two contracts are interchangeable.
TxnKinds == { <<"erc20", "0xa">>, <<"erc721", "0xa">>, <<"erc721", "0xb">>, <<"erc721", "">> }

\* ------------------------------------------------------------ small helpers
Range(s) == {s[i] : i \in 1..Len(s)}

\* str.lower() on the tx_type strings the model uses
Lower(s) ==
  CASE s = "ERC20" -> "erc20"
    [] s = "ERC721" -> "erc721"
    [] s = "ERC1155" -> "erc1155"
    [] OTHER -> s

\* str.upper() on the currency strings the model uses
Upper(s) ==
  CASE s = "eth" -> "ETH"
    [] s = "usd" -> "USD"
    [] OTHER -> s

\* f"ETHEREUM:{contract_address}"
CollectionId(addr) == <<"ETHEREUM", addr>>

\* ------------------------------------------------------ transaction records
\* The dict built by _fetch_token_transactions / the router: the fields the
\* enrichment reads or writes (transaction_hash identifies the record).
Txn(h, ty, addr) ==
  [transaction_hash |-> h, tx_type |-> ty, contract_address |-> addr, timestamp |-> 0,
   nft_num_owners |-> 0, nft_total_sales |-> 0, nft_floor_price |-> 0,
   nft_market_cap |-> 0, nft_total_volume |-> 0, nft_average_price |-> 0,
   nft_7day_volume |-> 0, nft_7day_sales |-> 0, nft_7day_avg_price |-> 0]

_set_default_nft_fields(t) ==
  [t EXCEPT !.nft_num_owners = 0, !.nft_total_sales = 0, !.nft_floor_price = 0,
            !.nft_market_cap = 0, !.nft_total_volume = 0, !.nft_average_price = 0,
            !.nft_7day_volume = 0, !.nft_7day_sales = 0, !.nft_7day_avg_price = 0]

AllNFTZero(t) ==
  /\ t.nft_num_owners = 0 /\ t.nft_total_sales = 0 /\ t.nft_floor_price = 0
  /\ t.nft_market_cap = 0 /\ t.nft_total_volume = 0 /\ t.nft_average_price = 0
  /\ t.nft_7day_volume = 0 /\ t.nft_7day_sales = 0 /\ t.nft_7day_avg_price = 0

\* Record lists the batch enrichment is called with.
BatchInputs ==
  UNION { { [i \in 1..n |-> Txn(i, f[i][1], f[i][2])] : f \in [1..n -> TxnKinds] }
          : n \in 0..MaxTxns }

\* A record without contract and without the nine NFT keys, as a caller
\* outside the request flows hands it over (test_rarible_api.py:192-197); -1
\* stands for "key absent".
BareTransaction ==
  [Txn(1, "normal", "") EXCEPT
     !.nft_num_owners = -1, !.nft_total_sales = -1, !.nft_floor_price = -1,
     !.nft_market_cap = -1, !.nft_total_volume = -1, !.nft_average_price = -1,
     !.nft_7day_volume = -1, !.nft_7day_sales = -1, !.nft_7day_avg_price = -1]

SingleInputs == { Txn(1, k[1], k[2]) : k \in TxnKinds } \cup {BareTransaction}

\* -------------------------------------------------- collection statistics
Price(cur, v) == [currency |-> cur, value |-> v]

\* A statistics response of the upstream (HTTP 200).
StatsResponses ==
  { [owners |-> 3, items |-> 4,
     floorPrice |-> <<Price("USD", 4000), Price("ETH", 1)>>,
     marketCap |-> <<Price("USD", 6000)>>,
     volume |-> <<Price("eth", 8)>>,
     highestSale |-> <<>>] }

NoStats ==
  [owners |-> 0, items |-> 0, floorPrice |-> <<>>, marketCap |-> <<>>,
   volume |-> <<>>, highestSale |-> <<>>]

\* What one collection_statistics(cid) call ends with:
\*   "stats": HTTP 200 and a body; "none": HTTP 404, the call returns None;
\*   "exc":   the call raises (other status, transport error, per-request
\*            httpx timeout, RuntimeError when no key is configured).
\* "pending" is a call that has not ended yet.
Result(k, s) == [kind |-> k, stats |-> s]
Pending == Result("pending", NoStats)
ReturnedNone == Result("none", NoStats)
Raised == Result("exc", NoStats)
Responses == { Result("stats", s) : s \in StatsResponses } \cup {ReturnedNone, Raised}

USD_PER_ETH == 2000

\* The argument of _extract_eth_value: a list of prices, None, or a value
\* that is not a list (kind "list", "None", "other").
PriceList(items) == [kind |-> "list", items |-> items]
NotAPriceList(kind) == [kind |-> kind, items |-> <<>>]

\* variant: the first entry in ETH or USD decides
_extract_eth_value_FirstEntry(price_list) ==
  LET items == price_list.items
      known == { i \in 1..Len(items) : Upper(items[i].currency) \in {"ETH", "USD"} }
      first == CHOOSE i \in known : \A j \in known : i <= j
  IN IF price_list.kind # "list" \/ known = {} THEN 0
     ELSE IF Upper(items[first].currency) = "ETH" THEN items[first].value
     ELSE IF items[first].value > 0 THEN items[first].value \div USD_PER_ETH
     ELSE 0

_extract_eth_value(price_list) ==
  LET items == price_list.items
      eth == { i \in 1..Len(items) : Upper(items[i].currency) = "ETH" }
      usd == { i \in 1..Len(items) : Upper(items[i].currency) = "USD" }
      first(S) == CHOOSE i \in S : \A j \in S : i <= j
  IN IF price_list.kind # "list" \/ items = <<>> THEN 0
     ELSE IF eth # {} THEN items[first(eth)].value
     ELSE IF usd # {}
          THEN IF items[first(usd)].value > 0
               THEN items[first(usd)].value \div USD_PER_ETH
               ELSE 0
          ELSE 0

\* "Collection found - extract values" (the same code in both operations)
ApplyStats(t, stats) ==
  LET floor == _extract_eth_value(PriceList(stats.floorPrice))
      cap == _extract_eth_value(PriceList(stats.marketCap))
      volume == _extract_eth_value(PriceList(stats.volume))
      highest_sale == _extract_eth_value(PriceList(stats.highestSale))
      sales == stats.items
      avg == IF highest_sale > 0 THEN highest_sale
             ELSE IF sales > 0 /\ volume > 0 THEN volume \div sales
             ELSE floor
  IN [t EXCEPT !.nft_num_owners = stats.owners, !.nft_total_sales = sales,
               !.nft_floor_price = floor, !.nft_market_cap = cap,
               !.nft_total_volume = volume, !.nft_average_price = avg,
               !.nft_7day_volume = 0, !.nft_7day_sales = 0,
               !.nft_7day_avg_price = 0]

\* ------------------------------------------------------------------- state
VARIABLES
  RARIBLE_API_KEYS,   \* the configured Rarible credentials (fixed at import)
  _NOT_FOUND_CACHE,   \* process-wide set of collection ids known as not found
  batch,              \* the enrich_transactions_with_nft_data call in flight
  single,             \* the enrich_transaction_with_nft_data call in flight
  ncalls,             \* enrichment calls started so far
  returned404,        \* history: ids for which some lookup returned HTTP 404
  recorded404,        \* history: ids whose 404 an operation has processed
  lookedUp,           \* history: ids a finished call has awaited a lookup for
  llm_explainer,      \* DetectionService.llm_explainer: "ready", or "none" when
                      \* its construction failed at start-up
  acct,               \* the account-detection request in flight (POST /detect/account)
  txreq,              \* the transaction-detection request in flight (POST /detect/transaction)
  _etherscan_keys,    \* the configured Etherscan credentials (fixed at import)
  _etherscan_cycle,   \* itertools.cycle over the Etherscan pool: index of the next key
  _rarible_cycle,     \* itertools.cycle over the Rarible pool: index of the next key
  issued,             \* history: the calls of etherscan_get / rarible_get, in order
  call                \* the call of the function a function-level specification
                      \* follows: its arguments and what it returned

enrichVars == <<RARIBLE_API_KEYS, _NOT_FOUND_CACHE, batch, single, ncalls>>
historyVars == <<returned404, recorded404, lookedUp>>
detectVars == <<llm_explainer, acct, txreq>>
poolVars == <<_etherscan_keys, _etherscan_cycle, _rarible_cycle, issued>>
unitVars == <<poolVars, call>>
vars == <<enrichVars, historyVars, detectVars, unitVars>>

CollectionIds == { CollectionId(a) : a \in Contracts }

KeyConfigs == { <<>>, <<"k1", "k2">> }

\* A call that has not started.  input is the argument, txns the same dicts as
\* the call has mutated them so far, uncached/results the lookups it awaits,
\* sent the ids for which an HTTP request went out, out the returned list.
\* cacheAtCall and known are the cache and recorded404 when the call started.
\* no function-level call made
NoCall == [pc |-> "idle"]

IdleOp ==
  [pc |-> "idle", input |-> <<>>, txns |-> <<>>,
   uncached |-> <<>>, results |-> <<>>, sent |-> <<>>, out |-> <<>>,
   timedOut |-> FALSE, cacheAtCall |-> {}, known |-> {}]

\* ------------------------------------------- rarible_get / the statistics call
\* rarible_get raises RuntimeError before any request is built when no key is
\* configured; otherwise the GET is sent.
RaribleSends == RARIBLE_API_KEYS # <<>>

\* ------------------------------ enrich_transactions_with_nft_data, by phase
\* lines 255-271: ERC-20 records and records without a contract get defaults
GroupPhase(transactions) ==
  [i \in 1..Len(transactions) |->
     LET txn == transactions[i] IN
     IF Lower(txn.tx_type) = "erc20" THEN _set_default_nft_fields(txn)
     ELSE IF txn.contract_address # "" THEN txn
     ELSE _set_default_nft_fields(txn)]

\* is record i put into contract_to_txns?
Grouped(txn) == Lower(txn.tx_type) # "erc20" /\ txn.contract_address # ""

\* variant: one key per grouped record, as if the records were not grouped by
\* contract
ContractKeys_PerRecord(transactions) ==
  LET grouped == SelectSeq(transactions, Grouped)
  IN [i \in 1..Len(grouped) |-> grouped[i].contract_address]

\* keys of contract_to_txns, in insertion order
ContractKeys(transactions) ==
  LET F[i \in 0..Len(transactions)] ==
        IF i = 0 THEN <<>>
        ELSE LET txn == transactions[i] IN
             IF Grouped(txn) /\ txn.contract_address \notin Range(F[i-1])
             THEN Append(F[i-1], txn.contract_address)
             ELSE F[i-1]
  IN F[Len(transactions)]

collection_ids(transactions) ==
  LET ks == ContractKeys(transactions) IN [i \in 1..Len(ks) |-> CollectionId(ks[i])]

\* variant: the negative cache is not consulted before the lookups
uncached_collections_Unfiltered(ids, cache) == ids

\* line 281: the ids that are not in the negative cache
uncached_collections(ids, cache) == SelectSeq(ids, LAMBDA cid : cid \notin cache)

\* "except asyncio.TimeoutError: stats_results = [None] * len(uncached)"
TimedOutResults(uncached) == [i \in 1..Len(uncached) |-> ReturnedNone]

\* lines 315-325: stats_map and the caching of None results
MapResults(uncached, stats_results, cache) ==
  [stats_map |->
     [cid \in Range(uncached) |->
        LET i == CHOOSE j \in 1..Len(uncached) : uncached[j] = cid IN
        IF stats_results[i].kind = "exc" THEN ReturnedNone ELSE stats_results[i]],
   cache |->
     cache \cup { uncached[i] : i \in { j \in 1..Len(uncached) : stats_results[j].kind = "none" } }]

\* variant: a record whose collection is in the negative cache is not appended
ApplyOne_SkipsCached(txn, stats_map, cache) ==
  LET collection_id == CollectionId(txn.contract_address)
      stats == IF collection_id \in DOMAIN stats_map
               THEN stats_map[collection_id] ELSE ReturnedNone
  IN IF txn.contract_address = ""
     THEN [txn |-> txn, cache |-> cache, keep |-> TRUE]
     ELSE IF collection_id \in cache
     THEN [txn |-> _set_default_nft_fields(txn), cache |-> cache, keep |-> FALSE]
     ELSE IF stats.kind = "none"
     THEN [txn |-> _set_default_nft_fields(txn),
           cache |-> cache \cup {collection_id}, keep |-> TRUE]
     ELSE [txn |-> ApplyStats(txn, stats.stats), cache |-> cache, keep |-> TRUE]

\* lines 328-373: one record of the final loop, with the cache as it stands;
\* keep: the record is appended to the returned list (every branch appends)
ApplyOne(txn, stats_map, cache) ==
  LET collection_id == CollectionId(txn.contract_address)
      stats == IF collection_id \in DOMAIN stats_map
               THEN stats_map[collection_id] ELSE ReturnedNone
  IN IF txn.contract_address = ""
     THEN [txn |-> txn, cache |-> cache, keep |-> TRUE]
     ELSE IF collection_id \in cache
     THEN [txn |-> _set_default_nft_fields(txn), cache |-> cache, keep |-> TRUE]
     ELSE IF stats.kind = "none"
     THEN [txn |-> _set_default_nft_fields(txn),
           cache |-> cache \cup {collection_id}, keep |-> TRUE]
     ELSE [txn |-> ApplyStats(txn, stats.stats), cache |-> cache, keep |-> TRUE]

\* the final loop over all records: the enriched list and the cache after it
ApplyAll(txns, stats_map, cache) ==
  LET F[i \in 0..Len(txns)] ==
        IF i = 0 THEN [enriched |-> <<>>, cache |-> cache]
        ELSE LET one == ApplyOne(txns[i], stats_map, F[i-1].cache) IN
             [enriched |-> IF one.keep THEN Append(F[i-1].enriched, one.txn)
                           ELSE F[i-1].enriched,
              cache |-> one.cache]
  IN F[Len(txns)]

\* lines 314-375 as a whole
FinishBatch(txns, uncached, stats_results, cache) ==
  LET m == MapResults(uncached, stats_results, cache)
  IN ApplyAll(txns, m.stats_map, m.cache)

\* ids whose lookup is sent by a call that starts with `uncached`
SentFor(uncached) == IF RaribleSends THEN uncached ELSE <<>>

\* ------------------------------------------------------------------ actions
\* A returned call's frame is gone at the next step of the event loop: its
\* return value is visible in the state right after the return only.
Gone(o) == IF o.pc = "done" THEN IdleOp ELSE o

\* enrich_transactions_with_nft_data(transactions), up to the await of the
\* gather (line 299), or to its return when nothing has to be awaited.
BatchCall(transactions) ==
  /\ batch.pc \in {"idle", "done"}
  /\ ncalls < MaxCalls
  /\ ncalls' = ncalls + 1
  /\ LET txns == GroupPhase(transactions)
         uncached == uncached_collections(collection_ids(transactions), _NOT_FOUND_CACHE)
         base == [IdleOp EXCEPT !.input = transactions,
                                !.cacheAtCall = _NOT_FOUND_CACHE, !.known = recorded404]
     IN IF transactions = <<>>
        THEN /\ batch' = [base EXCEPT !.pc = "done"]
             /\ UNCHANGED _NOT_FOUND_CACHE
        ELSE IF uncached = <<>>
        THEN LET fin == FinishBatch(txns, <<>>, <<>>, _NOT_FOUND_CACHE) IN
             /\ batch' = [base EXCEPT !.pc = "done", !.txns = fin.enriched,
                                      !.out = fin.enriched]
             /\ _NOT_FOUND_CACHE' = fin.cache
        ELSE /\ batch' = [base EXCEPT !.pc = "wait", !.txns = txns,
                                      !.uncached = uncached,
                                      !.sent = SentFor(uncached),
                                      !.results = [i \in 1..Len(uncached) |->
                                                     IF RaribleSends THEN Pending ELSE Raised]]
             /\ UNCHANGED _NOT_FOUND_CACHE
  /\ single' = Gone(single)
  /\ UNCHANGED <<RARIBLE_API_KEYS, returned404, recorded404, lookedUp>>

\* one of the gathered collection_statistics calls ends
BatchRespond(i, res) ==
  /\ batch.pc = "wait"
  /\ i \in 1..Len(batch.results)
  /\ batch.results[i] = Pending
  /\ batch' = [batch EXCEPT !.results[i] = res]
  /\ returned404' = IF res.kind = "none" THEN returned404 \cup {batch.uncached[i]}
                    ELSE returned404
  /\ single' = Gone(single)
  /\ UNCHANGED <<RARIBLE_API_KEYS, _NOT_FOUND_CACHE, ncalls, recorded404, lookedUp>>

\* the gather returns: every call has ended within the deadline (lines 314-375)
BatchGathered ==
  /\ batch.pc = "wait"
  /\ \A i \in 1..Len(batch.results) : batch.results[i] # Pending
  /\ LET fin == FinishBatch(batch.txns, batch.uncached, batch.results, _NOT_FOUND_CACHE)
     IN /\ batch' = [batch EXCEPT !.pc = "done", !.txns = fin.enriched, !.out = fin.enriched]
        /\ _NOT_FOUND_CACHE' = fin.cache
        /\ recorded404' = recorded404 \cup
             { batch.uncached[i] :
                 i \in { j \in 1..Len(batch.uncached) : batch.results[j].kind = "none" } }
        /\ lookedUp' = lookedUp \cup Range(batch.uncached)
  /\ single' = Gone(single)
  /\ UNCHANGED <<RARIBLE_API_KEYS, ncalls, returned404>>

\* asyncio.wait_for expires (2 s) with a call still pending (lines 303-307)
BatchTimeout ==
  /\ batch.pc = "wait"
  /\ \E i \in 1..Len(batch.results) : batch.results[i] = Pending
  /\ LET fin == FinishBatch(batch.txns, batch.uncached, TimedOutResults(batch.uncached),
                            _NOT_FOUND_CACHE)
     IN /\ batch' = [batch EXCEPT !.pc = "done", !.txns = fin.enriched, !.out = fin.enriched,
                                  !.timedOut = TRUE]
        /\ _NOT_FOUND_CACHE' = fin.cache
        /\ lookedUp' = lookedUp \cup Range(batch.uncached)
  /\ single' = Gone(single)
  /\ UNCHANGED <<RARIBLE_API_KEYS, ncalls, returned404, recorded404>>

\* variant: the single enrichment does not consult the negative cache
SingleCacheHit_Never(collection_id, cache) == FALSE

\* line 189: "if collection_id in _NOT_FOUND_CACHE" of the single enrichment
SingleCacheHit(collection_id, cache) == collection_id \in cache

\* enrich_transaction_with_nft_data(transaction), up to the await of the
\* statistics call (line 198), or to its return when nothing is awaited.
SingleCall(transaction) ==
  /\ single.pc \in {"idle", "done"}
  /\ ncalls < MaxCalls
  /\ ncalls' = ncalls + 1
  /\ LET collection_id == CollectionId(transaction.contract_address)
         base == [IdleOp EXCEPT !.input = <<transaction>>,
                                !.cacheAtCall = _NOT_FOUND_CACHE, !.known = recorded404]
         defaults == <<_set_default_nft_fields(transaction)>>
     IN IF transaction.contract_address = ""
           \/ SingleCacheHit(collection_id, _NOT_FOUND_CACHE)
        THEN /\ single' = [base EXCEPT !.pc = "done", !.txns = defaults, !.out = defaults]
             /\ UNCHANGED lookedUp
        ELSE IF ~RaribleSends
        THEN \* RuntimeError inside the try: "except Exception" sets the defaults
             /\ single' = [base EXCEPT !.pc = "done", !.txns = defaults, !.out = defaults,
                                       !.uncached = <<collection_id>>,
                                       !.results = <<Raised>>]
             /\ lookedUp' = lookedUp \cup {collection_id}
        ELSE /\ single' = [base EXCEPT !.pc = "wait", !.txns = <<transaction>>,
                                       !.uncached = <<collection_id>>,
                                       !.sent = <<collection_id>>,
                                       !.results = <<Pending>>]
             /\ UNCHANGED lookedUp
  /\ batch' = Gone(batch)
  /\ UNCHANGED <<RARIBLE_API_KEYS, _NOT_FOUND_CACHE, returned404, recorded404>>

\* the awaited statistics call ends (lines 200-239)
SingleRespond(res) ==
  /\ single.pc = "wait"
  /\ LET txn == single.txns[1]
         cid == single.uncached[1]
         enriched == IF res.kind = "stats" THEN ApplyStats(txn, res.stats)
                     ELSE _set_default_nft_fields(txn)
     IN /\ single' = [single EXCEPT !.pc = "done", !.results = <<res>>,
                                    !.txns = <<enriched>>, !.out = <<enriched>>]
        /\ _NOT_FOUND_CACHE' = IF res.kind = "none" THEN _NOT_FOUND_CACHE \cup {cid}
                               ELSE _NOT_FOUND_CACHE
        /\ returned404' = IF res.kind = "none" THEN returned404 \cup {cid} ELSE returned404
        /\ recorded404' = IF res.kind = "none" THEN recorded404 \cup {cid} ELSE recorded404
        /\ lookedUp' = lookedUp \cup {cid}
  /\ batch' = Gone(batch)
  /\ UNCHANGED <<RARIBLE_API_KEYS, ncalls>>

\* ================================================= chain data (Etherscan)
\* get_account_transactions: "max_per_type = 4" and "MAX_TOTAL_TRANSACTIONS = 10"
max_per_type == 4
MAX_TOTAL_TRANSACTIONS == 10

\* the three categories, in the order of the gather
Categories == <<"erc20", "erc721", "erc1155">>

\* SIG_MAP[sel][1]: the token standard a function selector implies
SIG_MAP_type(sel) ==
  CASE sel = "0x095ea7b3" -> "none"
    [] sel = "0xa22cb465" -> "erc721"
    [] sel = "0x23b872dd" -> "none"
    [] sel = "0x42842e0e" -> "erc721"
    [] sel = "0xb88d4fde" -> "erc721"
    [] sel = "0xf242432a" -> "erc1155"
    [] sel = "0x8fcbaf0c" -> "erc20"
    [] sel = "0xa9059cbb" -> "erc20"
    [] sel = "0x2eb2c2d6" -> "erc1155"
    [] OTHER -> "none"

\* The input data of a call: its first ten characters and its length.
Input(sel, n) == [selector |-> sel, length |-> n]

_get_token_type_from_input(input_data) ==
  IF input_data.length < 10 THEN "none" ELSE SIG_MAP_type(input_data.selector)

\* A row of an Etherscan token-transfer page.
Row(h, addr, ts, input) ==
  [hash |-> h, contractAddress |-> addr, timeStamp |-> ts, input |-> input]

\* The pages the upstream answers a category with (fewer than 100 rows each,
\* so that the paging loop of _fetch_token_transactions ends after one page).
Pages(tx_type) ==
  CASE tx_type = "erc20" -> { <<Row(11, "0xa", 3, Input("deprecated", 10))>>,
                              <<Row(11, "0xa", 3, Input("0xa22cb465", 138))>> }
    [] tx_type = "erc721" -> { <<Row(12, "0xa", 2, Input("deprecated", 10))>>,
                               <<Row(12, "0xb", 3, Input("0x42842e0e", 202))>> }
    [] tx_type = "erc1155" -> { <<Row(13, "0xb", 1, Input("deprecated", 10))>> }

\* What one etherscan_get of a category can end with: an exception (transport
\* error, timeout, raise_for_status on a non-2xx answer) or a JSON body.
FetchPending == [kind |-> "pending", status |-> "", message |-> "", result |-> <<>>]
FetchException == [kind |-> "exception", status |-> "", message |-> "", result |-> <<>>]
\* status "0" / NOTOK: invalid API key, rate limit
FetchNotOk == [kind |-> "json", status |-> "0", message |-> "NOTOK", result |-> <<>>]
\* status "0" / "No transactions found": the address has no such transfers
FetchNoTransactions ==
  [kind |-> "json", status |-> "0", message |-> "No transactions found", result |-> <<>>]
FetchOk(rows) == [kind |-> "json", status |-> "1", message |-> "OK", result |-> rows]

EtherscanResponses(tx_type) ==
  {FetchException, FetchNotOk, FetchNoTransactions}
    \cup { FetchOk(rows) : rows \in Pages(tx_type) }

\* lines 194-221: the record built from one row
FormatRow(txn, tx_type) ==
  LET selector_type == _get_token_type_from_input(txn.input)
      inferred_type == IF selector_type # "none" THEN selector_type ELSE tx_type
  IN [Txn(txn.hash, inferred_type, Lower(txn.contractAddress))
        EXCEPT !.timestamp = txn.timeStamp]

\* _fetch_token_transactions for a first page of fewer than 100 rows: the
\* exception of etherscan_get propagates, a status other than "1" or an empty
\* result gives the empty list, else the first max_txns rows are formatted.
_fetch_token_transactions(result, tx_type, max_txns) ==
  IF result.kind = "exception" THEN [raised |-> TRUE, txns |-> <<>>]
  ELSE IF result.status # "1" \/ result.result = <<>> THEN [raised |-> FALSE, txns |-> <<>>]
  ELSE LET n == IF Len(result.result) < max_txns THEN Len(result.result) ELSE max_txns
       IN [raised |-> FALSE,
           txns |-> [i \in 1..n |-> FormatRow(result.result[i], tx_type)]]

\* variant: a gather without return_exceptions, which raises the first exception
GatherRaises_Propagates(results) == \E i \in 1..3 : results[i].raised

\* asyncio.gather(..., return_exceptions=True): an exception of a category is
\* returned in its place, the gather itself never raises (line 262)
GatherRaises(results) == FALSE

\* lines 265-273: an exception in place of a list becomes the empty list
CategoryList(r) == IF r.raised THEN <<>> ELSE r.txns

\* variant: the merged list is left in category order
SortNewestFirst_Unsorted(s) == s

\* list.sort(key=timestamp, reverse=True): stable, newest first (line 277)
RECURSIVE InsertByTimestamp(_, _)
InsertByTimestamp(x, s) ==
  IF s = <<>> THEN <<x>>
  ELSE IF x.timestamp >= Head(s).timestamp THEN <<x>> \o s
  ELSE <<Head(s)>> \o InsertByTimestamp(x, Tail(s))

RECURSIVE SortNewestFirst(_)
SortNewestFirst(s) ==
  IF s = <<>> THEN <<>> ELSE InsertByTimestamp(Head(s), SortNewestFirst(Tail(s)))

\* DetectIn.max_transactions: the default of the account request body
max_transactions == 1000

\* get_account_transactions(address, max_txns), from the return of the gather
\* (lines 262-284); answers[i] is what the fetch of Categories[i] ended with.
\* The three fetches are started with max_per_type: max_txns is not read.
get_account_transactions(answers, max_txns) ==
  LET results == [i \in 1..3 |->
                    _fetch_token_transactions(answers[i], Categories[i], max_per_type)]
      combined == SortNewestFirst(CategoryList(results[1]) \o CategoryList(results[2])
                                    \o CategoryList(results[3]))
      n == IF Len(combined) < MAX_TOTAL_TRANSACTIONS THEN Len(combined)
           ELSE MAX_TOTAL_TRANSACTIONS
  IN IF GatherRaises(results) THEN [raised |-> TRUE, txns |-> <<>>]
     ELSE [raised |-> FALSE, txns |-> SubSeq(combined, 1, n)]

\* ====================================================== detection requests
\* The probabilities the model inference can give (the weights are not modelled).
Probabilities == {"0.10", "0.90"}

\* The body of an HTTP answer: the keys the handlers set ("absent", -1: no such key).
Response(status) ==
  [status |-> status, detection_mode |-> "absent", account_scam_probability |-> "absent",
   transaction_scam_probability |-> "absent", transactions_count |-> -1,
   message |-> "absent", explanations |-> "absent", llm_explanations |-> "absent"]

\* A request of either entry point that is not in flight.
IdleReq ==
  [pc |-> "idle", explain |-> FALSE, explain_with_llm |-> FALSE, body |-> "none",
   answers |-> <<>>, all_transactions |-> <<>>, tx_data |-> "none",
   steps |-> <<>>, response |-> Response(0)]

\* no enrichment call and no request of the other entry point is in flight
Quiet ==
  /\ batch.pc \in {"idle", "done"}
  /\ single.pc \in {"idle", "done"}
  /\ acct.pc \in {"idle", "done"}
  /\ txreq.pc \in {"idle", "done"}

\* ----------------------------------------------------- account detection
\* variant: the account entry point without its check of the two flags
AccountRejectsFlags_Never(explain, explain_with_llm) == FALSE

\* _handle_account_detection, lines 235-239
AccountRejectsFlags(explain, explain_with_llm) == explain_with_llm /\ ~explain

\* variant: detect_account without its early return on an empty list
NoTransactions_Never(all_transactions) == FALSE

\* detect_account line 227: "if not all_transactions"
NoTransactions(all_transactions) == all_transactions = <<>>

\* variant: the no-data return without its detection_mode key
NoDataResponse_Untagged ==
  [Response(200) EXCEPT !.account_scam_probability = "null", !.transactions_count = 0,
                        !.message = "No transactions found for this address."]

\* detect_account lines 231-237
NoDataResponse ==
  [Response(200) EXCEPT !.account_scam_probability = "null", !.transactions_count = 0,
                        !.detection_mode = "no_data",
                        !.message = "No transactions found for this address."]

\* POST /detect/account up to the await of the three category fetches
AccountRequest(explain, explain_with_llm) ==
  /\ Quiet
  /\ ncalls < MaxCalls
  /\ LET req == [IdleReq EXCEPT !.explain = explain, !.explain_with_llm = explain_with_llm]
     IN IF AccountRejectsFlags(explain, explain_with_llm)
        THEN acct' = [req EXCEPT !.pc = "done", !.response = Response(400)]
        ELSE acct' = [req EXCEPT !.pc = "fetch", !.steps = <<"fetch">>,
                                 !.answers = [i \in 1..3 |-> FetchPending]]
  /\ txreq' = IdleReq
  /\ UNCHANGED <<enrichVars, historyVars, llm_explainer>>

\* the etherscan_get of one category ends
AccountFetchRespond(i, result) ==
  /\ acct.pc = "fetch"
  /\ acct.answers[i] = FetchPending
  /\ acct' = [acct EXCEPT !.answers[i] = result]
  /\ UNCHANGED <<enrichVars, historyVars, llm_explainer, txreq>>

\* the gather of get_account_transactions returns; detect_account goes on to
\* the no-data return or to the await inside the enrichment (lines 223-246)
AccountFetchGathered ==
  /\ acct.pc = "fetch"
  /\ \A i \in 1..3 : acct.answers[i] # FetchPending
  /\ LET fetched == get_account_transactions(acct.answers, max_transactions)
     IN IF fetched.raised
        THEN /\ acct' = [acct EXCEPT !.pc = "done", !.response = Response(500)]
             /\ UNCHANGED <<enrichVars, historyVars>>
        ELSE IF NoTransactions(fetched.txns)
        THEN /\ acct' = [acct EXCEPT !.pc = "done", !.response = NoDataResponse]
             /\ UNCHANGED <<enrichVars, historyVars>>
        ELSE /\ acct' = [acct EXCEPT !.pc = "enrich", !.all_transactions = fetched.txns,
                                     !.steps = @ \o <<"enrich">>]
             /\ BatchCall(fetched.txns)
  /\ UNCHANGED <<llm_explainer, txreq>>

\* variant: the attribution runs whatever the flags are
AccountAfterEnrich_AlwaysAttributes(account_prob, attribution) ==
  /\ acct.pc = "enrich"
  /\ batch.pc = "done"
  /\ attribution = "ok"
  /\ acct' = [acct EXCEPT !.pc = "done",
                          !.steps = @ \o <<"extract", "normalize", "predict", "attribute">>,
                          !.response = [Response(200) EXCEPT
                                          !.account_scam_probability = account_prob,
                                          !.transactions_count = Len(acct.all_transactions),
                                          !.explanations = "account"]]
  /\ UNCHANGED <<enrichVars, historyVars, llm_explainer, txreq>>

\* detect_account from the return of the enrichment to the await of the LLM
\* call or to the return (lines 246-355); attribution is what
\* explain_prediction does: "ok" or "raises"
AccountAfterEnrich(account_prob, attribution) ==
  /\ acct.pc = "enrich"
  /\ batch.pc = "done"
  /\ LET response == [Response(200) EXCEPT !.account_scam_probability = account_prob,
                                           !.transactions_count = Len(acct.all_transactions)]
         predicted == [acct EXCEPT !.steps = @ \o <<"extract", "normalize", "predict">>]
     IN IF acct.explain \/ acct.explain_with_llm
        THEN IF attribution = "raises"
             THEN acct' = [predicted EXCEPT !.pc = "done", !.steps = @ \o <<"attribute">>,
                                            !.response = Response(500)]
             ELSE IF acct.explain_with_llm /\ llm_explainer = "ready"
             THEN acct' = [predicted EXCEPT !.pc = "llm", !.steps = @ \o <<"attribute", "llm">>,
                                            !.response = [response EXCEPT !.explanations = "account"]]
             ELSE acct' = [predicted EXCEPT !.pc = "done", !.steps = @ \o <<"attribute">>,
                                            !.response = [response EXCEPT !.explanations = "account"]]
        ELSE /\ attribution = "ok"
             /\ acct' = [predicted EXCEPT !.pc = "done", !.response = response]
  /\ UNCHANGED <<enrichVars, historyVars, llm_explainer, txreq>>

\* explain_top_features ends: "text", or "exception" (lines 326-351)
AccountLLMRespond(outcome) ==
  /\ acct.pc = "llm"
  /\ acct' = [acct EXCEPT !.pc = "done",
                !.response.llm_explanations = IF outcome = "text" THEN "text" ELSE "Unknown"]
  /\ UNCHANGED <<enrichVars, historyVars, llm_explainer, txreq>>

\* -------------------------------------------------- transaction detection
\* The bodies of POST /detect/transaction: a transaction hash, the details of
\* a pending transaction (with or without contract_address), or neither.
TxBodies ==
  { [mode |-> "hash", to_address |-> "", contract_address |-> ""],
    [mode |-> "pending", to_address |-> "0xb", contract_address |-> ""],
    [mode |-> "pending", to_address |-> "0xb", contract_address |-> "0xa"],
    [mode |-> "neither", to_address |-> "", contract_address |-> ""] }

\* lines 180-202: the record of a pending transaction
PendingTransaction(body) ==
  Txn(0, IF body.contract_address # "" THEN "erc721" ELSE "normal",
      Lower(IF body.contract_address # "" THEN body.contract_address ELSE body.to_address))

\* What eth_getTransactionByHash answers with: the transaction, or no result.
TxData(to, input) == [kind |-> "tx", to |-> to, input |-> input]
HashAnswers ==
  { [kind |-> "exception", to |-> "", input |-> Input("", 0)],
    [kind |-> "empty", to |-> "", input |-> Input("", 0)],
    TxData("0xb", Input("0x", 2)),
    TxData("0xa", Input("0x42842e0e", 202)),
    TxData("", Input("0x60806040", 500)) }

\* fetch_transaction_from_etherscan lines 81-121: the formatted record
FormatTransaction(tx_data) ==
  LET is_nft_tx == tx_data.input.length > 10
  IN Txn(1, IF is_nft_tx THEN "erc721" ELSE "normal", Lower(tx_data.to))

\* variant: every accepted request is looked up on the chain first
TxRequest_AlwaysFetch(body, explain, explain_with_llm) ==
  /\ Quiet
  /\ ncalls < MaxCalls
  /\ txreq' = [IdleReq EXCEPT !.explain = explain, !.explain_with_llm = explain_with_llm,
                              !.body = body.mode, !.pc = "by_hash", !.steps = <<"fetch">>]
  /\ acct' = IdleReq
  /\ UNCHANGED <<enrichVars, historyVars, llm_explainer>>

\* POST /detect/transaction up to its first await: the lookup by hash, or the
\* statistics call of the enrichment for a pending transaction
TxRequest(body, explain, explain_with_llm) ==
  /\ Quiet
  /\ ncalls < MaxCalls
  /\ LET req == [IdleReq EXCEPT !.explain = explain, !.explain_with_llm = explain_with_llm,
                                !.body = body.mode]
     IN CASE body.mode = "hash" ->
               /\ txreq' = [req EXCEPT !.pc = "by_hash", !.steps = <<"fetch">>]
               /\ UNCHANGED <<enrichVars, historyVars>>
          [] body.mode = "pending" ->
               /\ txreq' = [req EXCEPT !.pc = "enrich", !.steps = <<"enrich">>]
               /\ SingleCall(PendingTransaction(body))
          [] OTHER ->
               /\ txreq' = [req EXCEPT !.pc = "done", !.response = Response(400)]
               /\ UNCHANGED <<enrichVars, historyVars>>
  /\ acct' = IdleReq
  /\ UNCHANGED llm_explainer

\* get_transaction_by_hash ends (line 74)
TxHashRespond(answer) ==
  /\ txreq.pc = "by_hash"
  /\ IF answer.kind = "exception"
     THEN txreq' = [txreq EXCEPT !.pc = "done", !.response = Response(500)]
     ELSE txreq' = [txreq EXCEPT !.pc = "receipt", !.tx_data = answer]
  /\ UNCHANGED <<enrichVars, historyVars, llm_explainer, acct>>

\* get_transaction_receipt ends (lines 75-125), then detect_transaction runs
\* up to the await inside the enrichment
TxReceiptRespond(outcome) ==
  /\ txreq.pc = "receipt"
  /\ IF outcome = "exception"
     THEN /\ txreq' = [txreq EXCEPT !.pc = "done", !.response = Response(500)]
          /\ UNCHANGED <<enrichVars, historyVars>>
     ELSE IF txreq.tx_data.kind = "empty"
     THEN /\ txreq' = [txreq EXCEPT !.pc = "done", !.response = Response(404)]
          /\ UNCHANGED <<enrichVars, historyVars>>
     ELSE /\ txreq' = [txreq EXCEPT !.pc = "enrich", !.steps = @ \o <<"enrich">>]
          /\ SingleCall(FormatTransaction(txreq.tx_data))
  /\ UNCHANGED <<llm_explainer, acct>>

\* detect_transaction from the return of the enrichment to the await of the
\* LLM call or to the return (lines 74-198)
TxAfterEnrich(transaction_prob, attribution) ==
  /\ txreq.pc = "enrich"
  /\ single.pc = "done"
  /\ LET response == [Response(200) EXCEPT !.account_scam_probability = "null",
                                           !.transaction_scam_probability = transaction_prob,
                                           !.transactions_count = 1,
                                           !.detection_mode = "transaction_only"]
         predicted == [txreq EXCEPT !.steps = @ \o <<"extract", "normalize", "predict">>]
     IN IF txreq.explain \/ txreq.explain_with_llm
        THEN IF attribution = "raises"
             THEN txreq' = [predicted EXCEPT !.pc = "done", !.steps = @ \o <<"attribute">>,
                                             !.response = Response(500)]
             ELSE IF txreq.explain_with_llm /\ llm_explainer = "ready"
             THEN txreq' = [predicted EXCEPT !.pc = "llm", !.steps = @ \o <<"attribute", "llm">>,
                                             !.response = [response EXCEPT !.explanations = "transaction"]]
             ELSE txreq' = [predicted EXCEPT !.pc = "done", !.steps = @ \o <<"attribute">>,
                                             !.response = [response EXCEPT !.explanations = "transaction"]]
        ELSE /\ attribution = "ok"
             /\ txreq' = [predicted EXCEPT !.pc = "done", !.response = response]
  /\ UNCHANGED <<enrichVars, historyVars, llm_explainer, acct>>

\* explain_top_features ends: "text", or "exception" (lines 167-194)
TxLLMRespond(outcome) ==
  /\ txreq.pc = "llm"
  /\ txreq' = [txreq EXCEPT !.pc = "done",
                 !.response.llm_explanations = IF outcome = "text" THEN "text" ELSE "Unknown"]
  /\ UNCHANGED <<enrichVars, historyVars, llm_explainer, acct>>

\* ---------------------------------------------------------- specifications
Init ==
  /\ RARIBLE_API_KEYS \in KeyConfigs
  /\ _NOT_FOUND_CACHE = {}
  /\ batch = IdleOp
  /\ single = IdleOp
  /\ ncalls = 0
  /\ returned404 = {}
  /\ recorded404 = {}
  /\ lookedUp = {}
  /\ llm_explainer \in {"none", "ready"}
  /\ acct = IdleReq
  /\ txreq = IdleReq
  /\ _etherscan_keys = <<"e1", "e2">>
  /\ _etherscan_cycle = 0
  /\ _rarible_cycle = 0
  /\ issued = <<>>
  /\ call = NoCall

\* The enrichment operations called directly, any two of them overlapping.
Next ==
  \/ \E transactions \in BatchInputs : BatchCall(transactions) /\ UNCHANGED <<detectVars, unitVars>>
  \/ \E i \in 1..MaxTxns, res \in Responses : BatchRespond(i, res) /\ UNCHANGED <<detectVars, unitVars>>
  \/ BatchGathered /\ UNCHANGED <<detectVars, unitVars>>
  \/ BatchTimeout /\ UNCHANGED <<detectVars, unitVars>>
  \/ \E transaction \in SingleInputs : SingleCall(transaction) /\ UNCHANGED <<detectVars, unitVars>>
  \/ \E res \in Responses : SingleRespond(res) /\ UNCHANGED <<detectVars, unitVars>>

Spec == Init /\ [][Next]_vars

\* The two detection entry points, serving one request at a time.
NextDetect ==
  \/ \E explain \in BOOLEAN, explain_with_llm \in BOOLEAN :
       AccountRequest(explain, explain_with_llm) /\ UNCHANGED unitVars
  \/ \E i \in 1..3 : \E result \in EtherscanResponses(Categories[i]) :
       AccountFetchRespond(i, result) /\ UNCHANGED unitVars
  \/ AccountFetchGathered /\ UNCHANGED unitVars
  \/ \E i \in 1..Cardinality(Contracts), res \in Responses :
       BatchRespond(i, res) /\ UNCHANGED <<detectVars, unitVars>>
  \/ BatchGathered /\ UNCHANGED <<detectVars, unitVars>>
  \/ BatchTimeout /\ UNCHANGED <<detectVars, unitVars>>
  \/ \E account_prob \in Probabilities, attribution \in {"ok", "raises"} :
       AccountAfterEnrich(account_prob, attribution) /\ UNCHANGED unitVars
  \/ \E outcome \in {"text", "exception"} : AccountLLMRespond(outcome) /\ UNCHANGED unitVars
  \/ \E body \in TxBodies, explain \in BOOLEAN, explain_with_llm \in BOOLEAN :
       TxRequest(body, explain, explain_with_llm) /\ UNCHANGED unitVars
  \/ \E answer \in HashAnswers : TxHashRespond(answer) /\ UNCHANGED unitVars
  \/ \E outcome \in {"ok", "exception"} : TxReceiptRespond(outcome) /\ UNCHANGED unitVars
  \/ \E res \in Responses : SingleRespond(res) /\ UNCHANGED <<detectVars, unitVars>>
  \/ \E transaction_prob \in Probabilities, attribution \in {"ok", "raises"} :
       TxAfterEnrich(transaction_prob, attribution) /\ UNCHANGED unitVars
  \/ \E outcome \in {"text", "exception"} : TxLLMRespond(outcome) /\ UNCHANGED unitVars

SpecDetect == Init /\ [][NextDetect]_vars

\* ============================================================ key pools
\* etherscan_get and rarible_get, called by any coroutine of the process.
\* Spec and SpecDetect do not track which credential a request carries (it
\* does not influence them) and leave the pools untouched; SpecPool follows
\* the two functions alone.
MaxRequests == 4   \* calls of the two functions in one behaviour

EtherscanKeyConfigs == { <<>>, <<"e1">>, <<"e1", "e2">> }

\* variant: a fallback pool holding a key other than the empty string
Pool_OtherPlaceholder(keys) == IF keys # <<>> THEN keys ELSE <<"placeholder">>

\* itertools.cycle(keys) if keys else itertools.cycle([""])
Pool(keys) == IF keys # <<>> THEN keys ELSE <<"">>

\* variant: an iterator that does not advance
CycleAdvance_Stuck(pool, pos) == pos

\* next(cycle): the index after pos, wrapping around
CycleAdvance(pool, pos) == (pos + 1) % Len(pool)

\* "key = api_key if api_key else next(cycle)": None and "" are both falsy
FromPool(api_key) == api_key \in {"None", ""}

\* one call of a client function, as logged in issued
Call(api, api_key, key, sent) == [api |-> api, api_key |-> api_key, key |-> key, sent |-> sent]

\* the api_key arguments the callers pass: None, or one of the configured keys
ApiKeyArguments(keys) == {"None"} \cup Range(keys)

\* etherscan_get(..., api_key=api_key) up to the await of client.get: the
\* request is sent with the chosen key
etherscan_get(api_key) ==
  /\ Len(issued) < MaxRequests
  /\ LET pool == Pool(_etherscan_keys)
         key == IF FromPool(api_key) THEN pool[_etherscan_cycle + 1] ELSE api_key
     IN /\ issued' = Append(issued, Call("etherscan", api_key, key, TRUE))
        /\ _etherscan_cycle' = IF FromPool(api_key) THEN CycleAdvance(pool, _etherscan_cycle)
                               ELSE _etherscan_cycle
  /\ UNCHANGED <<_etherscan_keys, _rarible_cycle, enrichVars, historyVars, detectVars, call>>

\* rarible_get(..., api_key=api_key) up to the await of client.get, or to the
\* RuntimeError raised when no key is configured (lines 54-55)
rarible_get(api_key) ==
  /\ Len(issued) < MaxRequests
  /\ IF RARIBLE_API_KEYS = <<>>
     THEN /\ issued' = Append(issued, Call("rarible", api_key, "", FALSE))
          /\ UNCHANGED _rarible_cycle
     ELSE LET pool == Pool(RARIBLE_API_KEYS)
              key == IF FromPool(api_key) THEN pool[_rarible_cycle + 1] ELSE api_key
          IN /\ issued' = Append(issued, Call("rarible", api_key, key, TRUE))
             /\ _rarible_cycle' = IF FromPool(api_key) THEN CycleAdvance(pool, _rarible_cycle)
                                  ELSE _rarible_cycle
  /\ UNCHANGED <<_etherscan_keys, _etherscan_cycle, enrichVars, historyVars, detectVars, call>>

InitPool ==
  /\ RARIBLE_API_KEYS \in KeyConfigs
  /\ _NOT_FOUND_CACHE = {}
  /\ batch = IdleOp
  /\ single = IdleOp
  /\ ncalls = 0
  /\ returned404 = {}
  /\ recorded404 = {}
  /\ lookedUp = {}
  /\ llm_explainer = "ready"
  /\ acct = IdleReq
  /\ txreq = IdleReq
  /\ _etherscan_keys \in EtherscanKeyConfigs
  /\ _etherscan_cycle = 0
  /\ _rarible_cycle = 0
  /\ issued = <<>>
  /\ call = NoCall

NextPool ==
  \/ \E api_key \in ApiKeyArguments(_etherscan_keys) : etherscan_get(api_key)
  \/ \E api_key \in ApiKeyArguments(RARIBLE_API_KEYS) : rarible_get(api_key)

SpecPool == InitPool /\ [][NextPool]_vars

\* ==================================================== the fetch, alone
\* get_account_transactions called on its own, with pages long enough for
\* the per-category cap and the global cap to cut.
MaxRows == 4       \* longest page the upstream answers a category with

Timestamps == {1, 2}

\* the max_txns arguments of the callers
MaxTxnsArguments == {2, 1000}

\* The pages of category i: up to MaxRows rows, newest first (sort="desc").
PagesOf(i) ==
  UNION { { [k \in 1..n |-> Row(100 * i + k, "0xa", ts[k], Input("deprecated", 10))]
            : ts \in { t \in [1..n -> Timestamps] : \A k \in 1..(n - 1) : t[k] >= t[k + 1] } }
          : n \in 1..MaxRows }

AnswersOf(i) ==
  {FetchException, FetchNoTransactions} \cup { FetchOk(rows) : rows \in PagesOf(i) }

\* every variable but call, as the process starts
InitUnit ==
  /\ RARIBLE_API_KEYS = <<"k1", "k2">>
  /\ _NOT_FOUND_CACHE = {}
  /\ batch = IdleOp
  /\ single = IdleOp
  /\ ncalls = 0
  /\ returned404 = {}
  /\ recorded404 = {}
  /\ lookedUp = {}
  /\ llm_explainer = "ready"
  /\ acct = IdleReq
  /\ txreq = IdleReq
  /\ _etherscan_keys = <<"e1", "e2">>
  /\ _etherscan_cycle = 0
  /\ _rarible_cycle = 0
  /\ issued = <<>>

notCall == <<enrichVars, historyVars, detectVars, poolVars>>

\* get_account_transactions(address, max_txns) up to the await of the gather
FetchCall(max_txns) ==
  /\ call = NoCall
  /\ call' = [pc |-> "await", max_txns |-> max_txns, answers |-> <<>>, out |-> <<>>]
  /\ UNCHANGED notCall

\* the three fetches have ended and the function returns (lines 262-284)
FetchReturn(answers) ==
  /\ call.pc = "await"
  /\ call' = [call EXCEPT !.pc = "returned", !.answers = answers,
                          !.out = get_account_transactions(answers, call.max_txns).txns]
  /\ UNCHANGED notCall

InitFetch == InitUnit /\ call = NoCall

NextFetch ==
  \/ \E max_txns \in MaxTxnsArguments : FetchCall(max_txns)
  \/ \E a1 \in AnswersOf(1), a2 \in AnswersOf(2), a3 \in AnswersOf(3) :
       FetchReturn(<<a1, a2, a3>>)

SpecFetch == InitFetch /\ [][NextFetch]_vars

\* ------------------------------------------------- feature extraction
\* extract_account_level_features and extract_transaction_level_features
\* (feature_engineer.py), function level: one call is one step.  A number is
\* kept as an exact fraction num/den; np.std, a square root, is kept as the
\* fraction under the root.  The values drawn below are integers under 2^24,
\* which the conversion to float32 keeps exact; it rounds the fractions, and
\* maps 0 to 0.
MaxRecords == 2

Rat(n, d) == [kind |-> "num", num |-> n, den |-> d]
Sqrt(n, d) == [kind |-> "sqrt", num |-> n, den |-> d]
ZeroDivisionError == [kind |-> "ZeroDivisionError", num |-> 0, den |-> 0]

\* Python's a / b on integers
TrueDiv(a, b) == IF b = 0 THEN ZeroDivisionError ELSE Rat(a, b)

\* variant: max(a, 1) that lets its first argument through
max_First(a, b) == a

\* max(a, b)
max(a, b) == IF a >= b THEN a ELSE b

RECURSIVE SumSeq(_)
SumSeq(s) == IF s = <<>> THEN 0 ELSE s[1] + SumSeq(Tail(s))

\* [f(tx) for tx in s]
MapSeq(s, f(_)) == [i \in 1..Len(s) |-> f(s[i])]

\* sum(1 for x in s if p(x))
CountSeq(s, p(_)) == Cardinality({i \in 1..Len(s) : p(s[i])})

\* np.mean of a non-empty list
np_mean(s) == TrueDiv(SumSeq(s), Len(s))

RECURSIVE InsertAscending(_, _)
InsertAscending(x, s) ==
  IF s = <<>> THEN <<x>>
  ELSE IF x <= s[1] THEN <<x>> \o s
  ELSE <<s[1]>> \o InsertAscending(x, Tail(s))

\* sorted(s)
RECURSIVE sorted(_)
sorted(s) == IF s = <<>> THEN <<>> ELSE InsertAscending(s[1], sorted(Tail(s)))

\* np.diff
np_diff(s) == [i \in 1..(Len(s) - 1) |-> s[i + 1] - s[i]]

\* np.std of a non-empty list: sqrt(sum(d^2)/n - (sum(d)/n)^2)
np_std(s) ==
  Sqrt(Len(s) * SumSeq([i \in 1..Len(s) |-> s[i] * s[i]]) - SumSeq(s) * SumSeq(s),
       Len(s) * Len(s))

\* g > np.percentile(s, 75), linear interpolation between the two ranks
\* around 0.75 * (n - 1); for a list of at least two entries
AbovePercentile75(g, s) ==
  LET srt == sorted(s)
      lo == (3 * (Len(s) - 1)) \div 4
      r == (3 * (Len(s) - 1)) % 4
      hi == IF lo + 2 <= Len(s) THEN lo + 2 ELSE lo + 1
  IN 4 * g > 4 * srt[lo + 1] + r * (srt[hi] - srt[lo + 1])

\* the addresses of the model; the subject is also written in mixed case
ZeroAddress == "0x0000000000000000000000000000000000000000"
SubjectAddresses == {"0xS", "0xs"}
FromAddresses == {"0xS", "0xb", ZeroAddress}
ToAddresses == {"0xs", "0xb"}

\* str.lower() on the addresses of the model
AddressLower(a) == IF a = "0xS" THEN "0xs" ELSE a

\* str.startswith(zero address): the zero address is the only address of the
\* model that starts with it
StartsWithZeroAddress(a) == a = ZeroAddress

suspicious_patterns ==
  {"setApprovalForAll", "approve", "transferFrom", "safeTransferFrom",
   "batchTransfer", "multiTransfer", "permit", "delegateCall"}

\* lines 182-184, on the function names of the model: "transfer" contains no
\* pattern, "setApprovalForAll" is one
has_suspicious_func(tx) == \E i \in 1..Len(tx.function_call) : tx.function_call[i] \in suspicious_patterns

\* The records the functions are given: formatted transactions (typed as
\* etherscan_client.py:197-221 and routers/detect.py:180-202 build them).  A
\* gift is a zero-value token transfer calling setApprovalForAll with high gas.
FeatureRecord(from, to, gift, ts) ==
  [from_address |-> from, to_address |-> to,
   value |-> IF gift THEN 0 ELSE 3, token_value |-> IF gift THEN 1 ELSE 0,
   gasPrice |-> 10, gasUsed |-> IF gift THEN 200000 ELSE 21000,
   timestamp |-> ts,
   function_call |-> IF gift THEN <<"setApprovalForAll">> ELSE <<>>,
   nft_num_owners |-> IF gift THEN 7 ELSE 0, nft_total_sales |-> 0,
   nft_total_volume |-> 0, nft_average_price |-> 0, nft_floor_price |-> 0,
   nft_market_cap |-> 0]

\* no timestamp, or seconds within one day
FeatureTimestamps == {0, 3600, 10800}

FeatureRecords ==
  { FeatureRecord(from, to, gift, ts) :
      from \in FromAddresses, to \in ToAddresses, gift \in BOOLEAN, ts \in FeatureTimestamps }

TransactionLists == UNION { [1..n -> FeatureRecords] : n \in 0..MaxRecords }

\* np.array([...], dtype=np.float32): raises what an entry raised
Features(entries) ==
  IF \E i \in 1..Len(entries) : entries[i].kind = "ZeroDivisionError"
  THEN [raised |-> TRUE, features |-> <<>>]
  ELSE [raised |-> FALSE, features |-> entries]

\* np.zeros(15)
np_zeros(n) == [raised |-> FALSE, features |-> [i \in 1..n |-> Rat(0, 1)]]

extract_account_level_features(account_address, transactions) ==
  LET account_address_lower == AddressLower(account_address)
      out_txns == SelectSeq(transactions, LAMBDA tx : AddressLower(tx.from_address) = account_address_lower)
      in_txns == SelectSeq(transactions, LAMBDA tx : AddressLower(tx.to_address) = account_address_lower)
      all_txns == transactions
      GasPrice(tx) == tx.gasPrice
      GasUsed(tx) == tx.gasUsed
      Value(tx) == tx.value
      Timestamp(tx) == tx.timestamp
      gas_prices == MapSeq(all_txns, GasPrice)
      avg_gas_price == IF gas_prices # <<>> THEN np_mean(gas_prices) ELSE Rat(0, 1)
      timestamps == MapSeq(SelectSeq(all_txns, LAMBDA tx : tx.timestamp > 0), Timestamp)
      sorted_timestamps == sorted(timestamps)
      activity_duration_days ==
        IF timestamps # <<>> /\ Len(timestamps) > 1
        THEN TrueDiv(sorted_timestamps[Len(timestamps)] - sorted_timestamps[1], 24 * 3600)
        ELSE Rat(0, 1)
      time_diffs == np_diff(sorted_timestamps)
      std_time_between_txns ==
        IF Len(timestamps) > 1
        THEN (IF Len(time_diffs) > 0 THEN np_std(time_diffs) ELSE Rat(0, 1))
        ELSE Rat(0, 1)
      total_volume == SumSeq(MapSeq(all_txns, Value))
      in_neighbors == { AddressLower(in_txns[i].from_address) :
                          i \in {j \in 1..Len(in_txns) : in_txns[j].from_address # ""} }
      total_txn == Len(all_txns)
      in_out_ratio == TrueDiv(Len(in_txns), max(Len(out_txns), 1))
      total_value_in == SumSeq(MapSeq(in_txns, Value))
      out_neighbors == { AddressLower(out_txns[i].to_address) :
                           i \in {j \in 1..Len(out_txns) : out_txns[j].to_address # ""} }
      gas_used == MapSeq(all_txns, GasUsed)
      avg_gas_used == IF gas_used # <<>> THEN np_mean(gas_used) ELSE Rat(0, 1)
      gift_in_txns == SelectSeq(in_txns, LAMBDA tx : tx.value = 0 /\ tx.token_value > 0)
      giftinTxn_ratio == TrueDiv(Len(gift_in_txns), max(Len(in_txns), 1))
      mining_txns == SelectSeq(all_txns, LAMBDA tx : StartsWithZeroAddress(tx.from_address))
      avg_value_out == IF out_txns # <<>> THEN np_mean(MapSeq(out_txns, Value)) ELSE Rat(0, 1)
      turnover_ratio == TrueDiv(Len(out_txns), max(Len(in_txns), 1))
      out_txn == Len(out_txns)
  IN Features(<< avg_gas_price,
                 activity_duration_days,
                 std_time_between_txns,
                 Rat(total_volume, 1),
                 Rat(Cardinality(in_neighbors), 1),
                 Rat(total_txn, 1),
                 in_out_ratio,
                 Rat(total_value_in, 1),
                 Rat(Cardinality(out_neighbors), 1),
                 avg_gas_used,
                 giftinTxn_ratio,
                 Rat(Len(mining_txns), 1),
                 avg_value_out,
                 turnover_ratio,
                 Rat(out_txn, 1) >>)

extract_transaction_level_features(transactions) ==
  IF transactions = <<>> THEN np_zeros(15)
  ELSE
  LET GasPrice(tx) == tx.gasPrice
      GasUsed(tx) == tx.gasUsed
      Value(tx) == tx.value
      NumFunctions(tx) == Len(tx.function_call)
      Owners(tx) == tx.nft_num_owners
      Sales(tx) == tx.nft_total_sales
      TokenValue(tx) == tx.token_value
      Volume(tx) == tx.nft_total_volume
      AveragePrice(tx) == tx.nft_average_price
      FloorPrice(tx) == tx.nft_floor_price
      MarketCap(tx) == tx.nft_market_cap
      IsMint(tx) == StartsWithZeroAddress(tx.from_address)
      IsZeroValue(tx) == tx.value = 0
      gas_used_list == MapSeq(transactions, GasUsed)
      gas_threshold == 100000
      IsHighGas(g) == AbovePercentile75(g, gas_used_list)
      high_gas ==
        IF Len(gas_used_list) = 1
        THEN (IF gas_used_list[1] > gas_threshold THEN Rat(1, 1) ELSE Rat(0, 1))
        ELSE TrueDiv(CountSeq(gas_used_list, IsHighGas), Len(gas_used_list))
  IN Features(<< np_mean(MapSeq(transactions, GasPrice)),
                 np_mean(gas_used_list),
                 np_mean(MapSeq(transactions, Value)),
                 np_mean(MapSeq(transactions, NumFunctions)),
                 TrueDiv(CountSeq(transactions, has_suspicious_func), Len(transactions)),
                 np_mean(MapSeq(transactions, Owners)),
                 np_mean(MapSeq(transactions, Sales)),
                 np_mean(MapSeq(transactions, TokenValue)),
                 np_mean(MapSeq(transactions, Volume)),
                 TrueDiv(CountSeq(transactions, IsMint), Len(transactions)),
                 high_gas,
                 np_mean(MapSeq(transactions, AveragePrice)),
                 np_mean(MapSeq(transactions, FloorPrice)),
                 np_mean(MapSeq(transactions, MarketCap)),
                 TrueDiv(CountSeq(transactions, IsZeroValue), Len(transactions)) >>)

\* one call of extract_account_level_features
AccountFeatures(account_address, transactions) ==
  /\ call = NoCall
  /\ call' = [pc |-> "account_features", account_address |-> account_address,
              transactions |-> transactions,
              out |-> extract_account_level_features(account_address, transactions)]
  /\ UNCHANGED notCall

\* one call of extract_transaction_level_features
TransactionFeatures(transactions) ==
  /\ call = NoCall
  /\ call' = [pc |-> "transaction_features", account_address |-> "",
              transactions |-> transactions,
              out |-> extract_transaction_level_features(transactions)]
  /\ UNCHANGED notCall

InitFeatures == InitUnit /\ call = NoCall

\* a call is made once; the guard stands before the choice of the arguments
NextFeatures ==
  /\ call = NoCall
  /\ \/ \E a \in SubjectAddresses, txs \in TransactionLists : AccountFeatures(a, txs)
     \/ \E txs \in TransactionLists : TransactionFeatures(txs)

SpecFeatures == InitFeatures /\ [][NextFeatures]_vars

\* ------------------------------------------------------ feature scaling
\* scale_features (model_loader.py), function level, on the one-dimensional
\* vectors its two callers pass (detection_service.py:102, 259): n_samples is
\* 1.  A raw value is a small integer, or Big, a value above 1e10; the
\* logarithm of Big is kept as a symbol.
MaxFeatures == 3

\* a raw value: the integer x, or a value above 1e10
Small(x) == [big |-> FALSE, x |-> x]
Big == [big |-> TRUE, x |-> 0]

\* (log1p(Big) + n) / d
LogRat(n, d) == [kind |-> "log", num |-> n, den |-> d]

\* the vectors have 15 entries in the program; here, at least two
FeatureValues == {Small(-7), Small(20), Big}
FeatureVectors == UNION { [1..n -> FeatureValues] : n \in 2..MaxFeatures }

\* What load_training_statistics returned, seen from one task: None (no
\* file, or a file that did not load), a dictionary without the task, or the
\* task's mean and std lists.
Artifact(loaded, has_task, mean, std) ==
  [loaded |-> loaded, has_task |-> has_task, mean |-> mean, std |-> std]
StatisticsLists == UNION { [1..n -> {0, 2}] : n \in 0..(MaxFeatures + 1) }
Artifacts ==
  { Artifact(FALSE, FALSE, <<>>, <<>>), Artifact(TRUE, FALSE, <<>>, <<>>) }
    \cup { Artifact(TRUE, TRUE, mean, std) : mean \in StatisticsLists, std \in StatisticsLists }

\* numpy broadcasting of a row of n columns with a list of k entries: the
\* number of columns of the result, or -1 for "operands could not be
\* broadcast together"
Broadcast(n, k) ==
  IF n = k THEN n
  ELSE IF k = 1 THEN n
  ELSE IF n = 1 THEN k
  ELSE -1

\* entry i of a list stretched to the broadcast shape
Stretched(s, i) == IF Len(s) = 1 THEN s[1] ELSE s[i]

\* np.clip(x, lo, hi)
np_clip(x, lo, hi) == IF x < lo THEN lo ELSE IF x > hi THEN hi ELSE x

\* lines 208-210: features_processed[large_mask] = np.log1p(...)
log_transform(v) == IF v.big THEN LogRat(0, 1) ELSE Rat(v.x, 1)

\* np.clip(p, -5.0, 15.0) of a processed value: log1p of a value above 1e10
\* is above 23
ClipProcessed(p) ==
  IF p.kind = "log" THEN Rat(15, 1) ELSE Rat(np_clip(p.num, -5, 15), 1)

\* lines 238-243 and 268-271: the fallback for a single sample
FallbackScaling(features_processed) ==
  [raised |-> FALSE, path |-> "fallback",
   scaled |-> [i \in 1..Len(features_processed) |-> ClipProcessed(features_processed[i])]]

\* variant: every std replaced by 1
std_safe_Ones(training_std) == [i \in 1..Len(training_std) |-> 1]

\* line 226: np.where(training_std > 1e-8, training_std, 1.0)
std_safe(training_std) ==
  [i \in 1..Len(training_std) |-> IF training_std[i] > 0 THEN training_std[i] ELSE 1]

\* (p - mean) / std of a processed value
Standardized(p, mean, std) == [p EXCEPT !.num = @ - mean, !.den = std]

\* line 219: the length that is compared with n_features
MeanLengthChecked(task_stats) == Len(task_stats.mean)

scale_features(features, stats) ==
  LET n_features == Len(features)
      training_mean == stats.mean
      training_std == stats.std
      features_processed == [i \in 1..n_features |-> log_transform(features[i])]
      columns == Broadcast(n_features, Len(std_safe(training_std)))
  IN IF stats.loaded /\ stats.has_task
     THEN IF MeanLengthChecked(stats) # n_features
          THEN FallbackScaling(features_processed)
          ELSE IF columns = -1
          THEN [raised |-> TRUE, path |-> "statistics", scaled |-> <<>>]
          ELSE [raised |-> FALSE, path |-> "statistics",
                scaled |-> [i \in 1..columns |->
                              Standardized(Stretched(features_processed, i),
                                           Stretched(training_mean, i),
                                           Stretched(std_safe(training_std), i))]]
     ELSE FallbackScaling(features_processed)

\* one call of scale_features
ScaleFeatures(features, stats) ==
  /\ call = NoCall
  /\ call' = [pc |-> "scaled", features |-> features, stats |-> stats,
              out |-> scale_features(features, stats)]
  /\ UNCHANGED notCall

InitScale == InitUnit /\ call = NoCall

NextScale ==
  /\ call = NoCall
  /\ \E features \in FeatureVectors, stats \in Artifacts : ScaleFeatures(features, stats)

SpecScale == InitScale /\ [][NextScale]_vars

\* ---------------------------------------------------------- attribution
\* FastFeatureExplainer.explain_prediction (fast_feature_explainer.py) and
\* the ranking of SHAPExplainer.explain_prediction (shap_explainer.py),
\* function level.  The gradients and the SHAP values of one sample are the
\* inputs: what the model's backward pass and the shap library returned.
MaxScores == 6

\* signed gradient components / SHAP values
ScoreValues == {-2, 0, 1}
ScoreVectors == UNION { [1..n -> ScoreValues] : n \in 1..MaxScores }

\* the schema: feature k is named k and the sample holds the value 10 * k
feature_names(n) == [k \in 1..n |-> k]
SampleValues(n) == [k \in 1..n |-> 10 * k]

\* variant: the sign is kept
Abs_Signed(x) == x

\* abs(x)
Abs(x) == IF x < 0 THEN 0 - x ELSE x

\* variant: ranked by the signed score
SortKey_Signed(x) == x

\* key=lambda x: abs(x[...])
SortKey(x) == Abs(x)

\* list.sort(key=..., reverse=True) on positions: the positions 1..n of
\* scores by non-increasing key; the sort is stable, equal keys keep the
\* order of the list
RECURSIVE InsertByKey(_, _, _)
InsertByKey(k, order, scores) ==
  IF order = <<>> THEN <<k>>
  ELSE IF SortKey(scores[order[1]]) >= SortKey(scores[k])
       THEN <<order[1]>> \o InsertByKey(k, Tail(order), scores)
       ELSE <<k>> \o order

RECURSIVE SortedPositions(_, _)
SortedPositions(scores, n) ==
  IF n = 0 THEN <<>> ELSE InsertByKey(n, SortedPositions(scores, n - 1), scores)

\* fi[:5]
top_5(fi) == SubSeq(fi, 1, IF Len(fi) < 5 THEN Len(fi) ELSE 5)

\* fast_feature_explainer.py lines 69-114
FastExplainPrediction(gradients) ==
  LET n == Len(gradients)
      importance_scores == [k \in 1..n |-> Abs(gradients[k])]
      total_importance == SumSeq(importance_scores)
      normalized_importance ==
        IF total_importance > 0
        THEN [k \in 1..n |-> TrueDiv(importance_scores[k], total_importance)]
        ELSE [k \in 1..n |-> Rat(importance_scores[k], 1)]
      fi == [k \in 1..n |->
               [feature_name |-> feature_names(n)[k],
                importance_score |-> importance_scores[k],
                normalized_importance |-> normalized_importance[k],
                feature_value |-> SampleValues(n)[k]]]
      order == SortedPositions(importance_scores, n)
  IN [feature_importance |-> top_5([j \in 1..n |-> fi[order[j]]]),
      raw_importance_scores |-> importance_scores,
      normalized_importance_scores |-> normalized_importance,
      method |-> "gradient_based"]

\* shap_explainer.py lines 161-180, values being the SHAP values of the
\* first sample
ShapExplainPrediction(values) ==
  LET n == Len(values)
      fi == [k \in 1..n |->
               [feature_name |-> feature_names(n)[k],
                shap_value |-> values[k],
                feature_value |-> SampleValues(n)[k]]]
      order == SortedPositions(values, n)
  IN [feature_importance |-> top_5([j \in 1..n |-> fi[order[j]]]),
      raw_shap_values |-> <<values>>]

\* detection_service.py lines 144-159 and 302-317: the explanation handed to
\* the response and to the LLM explainer
shap_like_explanation(explanation) ==
  [feature_importance |->
     [j \in 1..Len(explanation.feature_importance) |->
        [feature_name |-> explanation.feature_importance[j].feature_name,
         shap_value |-> explanation.feature_importance[j].importance_score,
         feature_value |-> explanation.feature_importance[j].feature_value]],
   raw_shap_values |-> explanation.raw_importance_scores,
   method |-> "gradient_based"]

\* one call of FastFeatureExplainer.explain_prediction, and the mapping the
\* detection service applies to its result
FastExplain(gradients) ==
  /\ call = NoCall
  /\ call' = [pc |-> "fast_explained", scores |-> gradients,
              out |-> FastExplainPrediction(gradients),
              ranked |-> shap_like_explanation(FastExplainPrediction(gradients)).feature_importance]
  /\ UNCHANGED notCall

\* the ranking at the end of one call of SHAPExplainer.explain_prediction
ShapRank(values) ==
  /\ call = NoCall
  /\ call' = [pc |-> "shap_explained", scores |-> values,
              out |-> ShapExplainPrediction(values),
              ranked |-> ShapExplainPrediction(values).feature_importance]
  /\ UNCHANGED notCall

InitExplain == InitUnit /\ call = NoCall

NextExplain ==
  /\ call = NoCall
  /\ \/ \E gradients \in ScoreVectors : FastExplain(gradients)
     \/ \E values \in ScoreVectors : ShapRank(values)

SpecExplain == InitExplain /\ [][NextExplain]_vars

\* ------------------------------------------- pending-transaction features
\* POST /detect/transaction with pending-transaction fields, from the request
\* body to the feature vector: the record of routers/detect.py:172-202, the
\* enrichment, extract_transaction_level_features([enriched]).  Function
\* level: the enrichment is taken by its outcome.

\* SIG_MAP[sel][0]: the function name of a selector, "" for an unknown one
SIG_MAP_name(sel) ==
  CASE sel = "0x095ea7b3" -> "approve"
    [] sel = "0xa22cb465" -> "setApprovalForAll"
    [] sel = "0x23b872dd" -> "transferFrom"
    [] sel = "0x42842e0e" -> "safeTransferFrom"
    [] sel = "0xb88d4fde" -> "safeTransferFrom"
    [] sel = "0xf242432a" -> "safeBatchTransferFrom"
    [] sel = "0x8fcbaf0c" -> "permit"
    [] sel = "0xa9059cbb" -> "transfer"
    [] sel = "0x2eb2c2d6" -> "safeTransferFrom"
    [] OTHER -> ""

\* str.lower() on the selectors of the model
SelectorLower(sel) ==
  CASE sel = "0xA22CB465" -> "0xa22cb465"
    [] sel = "0XA22CB465" -> "0xa22cb465"
    [] OTHER -> sel

\* variant: nothing is decoded
decode_function_name_Nothing(input_data) == <<>>

\* decode_function_name (etherscan_client.py:129-135)
decode_function_name(input_data) ==
  IF input_data.length = 0 \/ input_data.length < 10 THEN <<>>
  ELSE LET name == SIG_MAP_name(SelectorLower(input_data.selector))
       IN IF name # "" THEN <<name>> ELSE <<>>

\* parse_int_value (routers/detect.py:19-46) on the strings of the model
parse_int_value(value) ==
  CASE value = "None" -> 0
    [] value = "" -> 0
    [] value = "0" -> 0
    [] value = "0x0" -> 0
    [] value = "000" -> 0
    [] value = "5" -> 5
    [] value = "0x5" -> 5
    [] OTHER -> 0

\* the strings a request gives for value ("None": the field is absent)
ValueStrings == {"None", "0", "0x0", "000", "5", "0x5"}

\* function_call of a request: absent or empty (both falsy), or names
FunctionCallLists ==
  { <<>>, <<"setApprovalForAll">>, <<"setApprovalForAll", "approve">>, <<"transfer">> }

\* input of a request: absent, the selector of setApprovalForAll alone, with
\* arguments, in upper case, cut short, and another selector
RequestInputs ==
  { Input("", 0), Input("0xa22cb465", 10), Input("0xa22cb465", 138),
    Input("0xA22CB465", 138), Input("0xa22cb46", 9), Input("0xa9059cbb", 138) }

PendingBodies ==
  { [mode |-> "pending", to_address |-> "0xb", contract_address |-> c,
     value |-> v, function_call |-> f, input |-> i] :
      c \in {"", "0xa"}, v \in ValueStrings, f \in FunctionCallLists, i \in RequestInputs }

\* routers/detect.py:175-202: transaction_data of a pending transaction
transaction_data_of(body) ==
  LET function_calls ==
        IF body.function_call = <<>> /\ body.input.length > 0
        THEN decode_function_name(body.input)
        ELSE body.function_call
  IN [from_address |-> "0xs", to_address |-> Lower(body.to_address),
      value |-> IF body.value # "None" /\ body.value # "" THEN parse_int_value(body.value) ELSE 0,
      gasPrice |-> 10, gasUsed |-> 21000,
      function_call |-> function_calls,
      token_value |-> 0] @@ PendingTransaction(body)

\* what enrich_transaction_with_nft_data can return for the record: the
\* statistics applied, or the nine fields at their defaults (404, cache hit,
\* error)
EnrichmentOutcomes(transaction) ==
  { ApplyStats(transaction, s) : s \in StatsResponses } \cup {_set_default_nft_fields(transaction)}

\* one pending request up to the feature vector (detection_service.py:74-81)
PendingFeatures(body, enriched_transaction) ==
  /\ call = NoCall
  /\ enriched_transaction \in EnrichmentOutcomes(transaction_data_of(body))
  /\ call' = [pc |-> "pending_features", body |-> body,
              enriched |-> enriched_transaction,
              out |-> extract_transaction_level_features(<<enriched_transaction>>)]
  /\ UNCHANGED notCall

InitPending == InitUnit /\ call = NoCall

NextPending ==
  /\ call = NoCall
  /\ \E body \in PendingBodies :
       \E enriched \in EnrichmentOutcomes(transaction_data_of(body)) : PendingFeatures(body, enriched)

SpecPending == InitPending /\ [][NextPending]_vars

\* ------------------------------------------------------------ price lists
\* _extract_eth_value alone (rarible_client.py:129-157).  The USD values of
\* the model are multiples of 2000, so the conversion is exact.
MaxPrices == 3

Currencies == {"ETH", "eth", "USD", "usd", "DAI"}
PriceValues == {-4000, 0, 4000}
PriceLists ==
  { PriceList(items) :
      items \in UNION { [1..n -> { Price(c, v) : c \in Currencies, v \in PriceValues }]
                          : n \in 0..MaxPrices } }
    \cup { NotAPriceList("None"), NotAPriceList("other") }

\* one call of _extract_eth_value
ExtractEthValue(price_list) ==
  /\ call = NoCall
  /\ call' = [pc |-> "extracted", price_list |-> price_list,
              out |-> _extract_eth_value(price_list)]
  /\ UNCHANGED notCall

InitPrice == InitUnit /\ call = NoCall

NextPrice ==
  /\ call = NoCall
  /\ \E price_list \in PriceLists : ExtractEthValue(price_list)

SpecPrice == InitPrice /\ [][NextPrice]_vars

\* ------------------------------------------------- the paging loop
\* _fetch_token_transactions called on its own, one step per etherscan_get.
\* The loop reads nothing of a row but the number of rows of the page, so a
\* page is modelled by its number of rows and the list `transactions` by its
\* length.
MaxPages == 3      \* pages needed to fill the largest max_txns argument

offset == 100      \* rows asked per page (line 169)

\* the max_txns arguments
PageLimits == {-1, 0, 1, offset - 1, offset + 1} \cup { offset * k : k \in 1..MaxPages }

\* What one etherscan_get of the loop ends with: an exception, a body whose
\* status is not "1", a body whose result is not a list, or a page of rows
\* (an upstream that ignores offset can answer more than 100 rows).
PageException == [kind |-> "exception", status |-> "", is_list |-> FALSE, rows |-> 0]
PageNotOk == [kind |-> "json", status |-> "0", is_list |-> FALSE, rows |-> 0]
PageNotAList == [kind |-> "json", status |-> "1", is_list |-> FALSE, rows |-> 0]
PageOk(n) == [kind |-> "json", status |-> "1", is_list |-> TRUE, rows |-> n]

RowCounts == {0, 1, offset - 1, offset, offset + 1}

PageAnswers == {PageException, PageNotOk, PageNotAList} \cup { PageOk(n) : n \in RowCounts }

\* variant: the page number is not advanced
NextPage_Same(page) == page

\* line 227
NextPage(page) == page + 1

\* lines 193-222: the rows of a page appended while len(transactions) < max_txns
Appended(rows, length, max_txns) ==
  IF rows < max_txns - length THEN rows ELSE max_txns - length

\* lines 167-172: the call up to the first etherscan_get, or to the return
\* when the loop condition fails at once
PagingCall(max_txns) ==
  /\ call = NoCall
  /\ call' = [pc |-> IF 0 < max_txns THEN "await" ELSE "returned",
              max_txns |-> max_txns,
              page |-> 1,
              transactions |-> 0,
              requested |-> IF 0 < max_txns THEN <<1>> ELSE <<>>,
              answers |-> <<>>]
  /\ UNCHANGED notCall

\* lines 174-229: from the return of an etherscan_get to the next one, to the
\* return of the function or to the exception leaving it
PagingAnswer(result) ==
  /\ call # NoCall
  /\ call.pc = "await"
  /\ LET length == call.transactions + Appended(result.rows, call.transactions, call.max_txns)
         page == NextPage(call.page)
     IN call' =
          IF result.kind = "exception"
          THEN [call EXCEPT !.pc = "raised", !.answers = @ \o <<result>>]
          ELSE IF result.status # "1" \/ ~result.is_list \/ result.rows = 0
          THEN [call EXCEPT !.pc = "returned", !.answers = @ \o <<result>>]
          ELSE IF result.rows < offset
          THEN [call EXCEPT !.pc = "returned", !.answers = @ \o <<result>>,
                            !.transactions = length]
          ELSE IF length < call.max_txns
          THEN [call EXCEPT !.answers = @ \o <<result>>, !.transactions = length,
                            !.page = page, !.requested = @ \o <<page>>]
          ELSE [call EXCEPT !.pc = "returned", !.answers = @ \o <<result>>,
                            !.transactions = length, !.page = page]
  /\ UNCHANGED notCall

PagingAnswers == \E result \in PageAnswers : PagingAnswer(result)

InitPaging == InitUnit /\ call = NoCall

NextPaging ==
  \/ call = NoCall /\ \E max_txns \in PageLimits : PagingCall(max_txns)
  \/ PagingAnswers

\* every etherscan_get returns or raises
SpecPaging == InitPaging /\ [][NextPaging]_vars /\ WF_vars(PagingAnswers)

\* ------------------------------------------------- the SHAP explainer
\* One SHAPExplainer object and the calls made on it, each call one step (the
\* methods have no await). An array is the sequence of its rows, a row is a
\* number; a cached explainer is the pair of its key and of the background
\* array shap.Explainer was built with.
MaxSamples == 3    \* most rows of an array passed to a call

\* the constructor argument (100 by default), small here so that an array
\* can have more rows than it
background_data_size == MaxSamples - 1

RowValues == {1, 2}

SampleArrays == UNION { [1..n -> RowValues] : n \in 1..MaxSamples }

None == [is_none |-> TRUE, rows |-> <<>>]
Array(rows) == [is_none |-> FALSE, rows |-> rows]

CacheKeys == {"transaction", "account"} \X BOOLEAN

\* np.random.choice(n_samples, size, replace=False): size distinct indices,
\* in any order
Choices(n_samples, size) ==
  { idx \in [1..size -> 1..n_samples] : \A i, j \in 1..size : idx[i] = idx[j] => i = j }

\* lines 58-63: the arrays new_background can be
NewBackgrounds(sample_features) ==
  IF Len(sample_features) <= background_data_size
  THEN {sample_features}
  ELSE { [i \in 1..background_data_size |-> sample_features[idx[i]]]
         : idx \in Choices(Len(sample_features), background_data_size) }

\* variant: the cache is kept when the background changes
ClearedCache_Kept(explainers) == explainers

\* line 69: self.explainers = {}
ClearedCache(explainers) == {}

\* prepare_background_data applied to the object o with new_background chosen
\* (lines 66-70)
prepare_background_data(o, new_background) ==
  IF o.background_data.is_none \/ o.background_data.rows # new_background
  THEN [o EXCEPT !.explainers = IF ~o.background_data.is_none
                                 THEN ClearedCache(o.explainers) ELSE o.explainers,
                 !.emptied = @ \/ (~o.background_data.is_none /\ o.explainers # {}),
                 !.background_data = Array(new_background)]
  ELSE o

\* self.explainers[cache_key] = e
WithExplainer(explainers, cache_key, e) ==
  { c \in explainers : c.key # cache_key } \cup {[key |-> cache_key, built_on |-> e]}

\* SHAPExplainer.__init__ (lines 42-47)
ShapConstruct ==
  /\ call = NoCall
  /\ call' = [pc |-> "shap", op |-> "init", background_data |-> None, explainers |-> {},
              used |-> None, emptied |-> FALSE]
  /\ UNCHANGED notCall

\* a call of prepare_background_data (lines 49-70)
ShapPrepare(sample_features) ==
  /\ call # NoCall
  /\ call.pc = "shap"
  /\ \E new_background \in NewBackgrounds(sample_features) :
       call' = [prepare_background_data(call, new_background)
                  EXCEPT !.op = "prepare", !.used = None]
  /\ UNCHANGED notCall

\* a call of explain_prediction (lines 72-180): the background is prepared
\* from the features when there is none, the explainer of the key is built on
\* self.background_data unless cached, and the cached one computes the values
ShapExplain(features, cache_key) ==
  /\ call # NoCall
  /\ call.pc = "shap"
  /\ \E new_background \in NewBackgrounds(features) :
       LET o == IF call.background_data.is_none
                THEN prepare_background_data(call, new_background) ELSE call
           cached == { c \in o.explainers : c.key = cache_key }
           explainers == IF cached = {}
                         THEN WithExplainer(o.explainers, cache_key, o.background_data.rows)
                         ELSE o.explainers
           explainer == CHOOSE c \in explainers : c.key = cache_key
       IN call' = [o EXCEPT !.op = "explain", !.explainers = explainers,
                            !.used = Array(explainer.built_on)]
  /\ UNCHANGED notCall

InitShap == InitUnit /\ call = NoCall

NextShap ==
  \/ ShapConstruct
  \/ call # NoCall /\ \E sample_features \in SampleArrays : ShapPrepare(sample_features)
  \/ call # NoCall /\ \E features \in SampleArrays, cache_key \in CacheKeys :
       ShapExplain(features, cache_key)

SpecShap == InitShap /\ [][NextShap]_vars

\* ================================================================== claims
Ops == {batch, single}

\* this step sends a collection-statistics request for cid
NewlySent(cid) ==
  \/ batch.pc # "wait" /\ batch'.pc = "wait" /\ cid \in Range(batch'.sent)
  \/ single.pc # "wait" /\ single'.pc = "wait" /\ cid \in Range(single'.sent)

\* the records of the returned list o.out that reference collection id cid
Referencing(o, cid) ==
  { i \in 1..Len(o.out) : o.out[i].contract_address # ""
                          /\ CollectionId(o.out[i].contract_address) = cid }

\* ---- C1
\* C1 as claimed: once some lookup for an id has returned 404, no step sends a
\* request for that id any more.
C1_NoCallOnceReturned404 ==
  [][\A cid \in returned404 : ~NewlySent(cid)]_vars

\* C1, amended: once an operation has processed a 404 for an id (at once in
\* the single enrichment, when its gather has returned in the batch one) and
\* put it in the negative cache, no step sends a request for that id, and the
\* calls that start afterwards return all-zero NFT fields for its records.
C1_NoCallOnceRecorded404 ==
  /\ [][\A cid \in recorded404 : ~NewlySent(cid)]_vars
  /\ [](\A o \in Ops : o.pc = "done" =>
          \A cid \in o.known : \A i \in Referencing(o, cid) : AllNFTZero(o.out[i]))

\* a batch call that started after a recorded 404 for the contract of one of
\* its non-ERC-20 records has returned without sending anything
C1_Witness ==
  /\ batch.pc = "done"
  /\ batch.sent = <<>>
  /\ \E cid \in batch.known : \E i \in Referencing(batch, cid) :
        Lower(batch.out[i].tx_type) # "erc20"

\* ---- C2
UniqueContracts(transactions) ==
  { transactions[i].contract_address : i \in 1..Len(transactions) } \ {""}

\* every unique contract of the list is referenced by a non-ERC-20 record
AllOnNonErc20(transactions) ==
  \A a \in UniqueContracts(transactions) :
     \E i \in 1..Len(transactions) :
        transactions[i].contract_address = a /\ Lower(transactions[i].tx_type) # "erc20"

NoneCached(transactions, cache) ==
  \A a \in UniqueContracts(transactions) : CollectionId(a) \notin cache

\* C2 as claimed: a batch call on N records with K unique non-empty contracts
\* sends at most K requests, and exactly K when the K contracts are those of
\* non-ERC-20 records and none is in the negative cache.
C2_AtMostKExactlyK ==
  batch.pc # "idle" =>
    LET K == Cardinality(UniqueContracts(batch.input)) IN
    /\ Len(batch.sent) <= K
    /\ (AllOnNonErc20(batch.input) /\ NoneCached(batch.input, batch.cacheAtCall))
         => Len(batch.sent) = K

\* C2, amended: exactly K only when a Rarible key is configured; with none,
\* every lookup raises before a request is sent and the call sends nothing.
C2_AtMostKExactlyKWithKey ==
  batch.pc # "idle" =>
    LET K == Cardinality(UniqueContracts(batch.input)) IN
    /\ Len(batch.sent) <= K
    /\ (AllOnNonErc20(batch.input) /\ NoneCached(batch.input, batch.cacheAtCall)
        /\ RARIBLE_API_KEYS # <<>>)
         => Len(batch.sent) = K
    /\ RARIBLE_API_KEYS = <<>> => batch.sent = <<>>

\* two non-ERC-20 records on one contract: one request
C2_Witness ==
  /\ batch.pc = "wait"
  /\ Len(batch.input) = 2
  /\ batch.input[1].contract_address = batch.input[2].contract_address
  /\ Lower(batch.input[1].tx_type) # "erc20"
  /\ Lower(batch.input[2].tx_type) # "erc20"
  /\ Len(batch.sent) = 1

C4_CacheOnly404 == _NOT_FOUND_CACHE \subseteq returned404

\* ---- C5
\* C5 as claimed: when the batch enrichment returns, every ERC-20 record has
\* all nine NFT fields zero, and no request was sent for a contract that only
\* ERC-20 records reference.
C5_Erc20StayZero ==
  batch.pc = "done" =>
    /\ \A i \in 1..Len(batch.out) :
         Lower(batch.out[i].tx_type) = "erc20" => AllNFTZero(batch.out[i])
    /\ \A cid \in Range(batch.sent) :
         \E i \in 1..Len(batch.input) :
            /\ CollectionId(batch.input[i].contract_address) = cid
            /\ Lower(batch.input[i].tx_type) # "erc20"

\* ---- C6
\* the lookup for record i of the finished batch call was awaited and did not
\* give statistics (404, error, or not completed by the deadline)
LookupFailed(o, i) ==
  \E j \in 1..Len(o.uncached) :
     /\ o.uncached[j] = CollectionId(o.input[i].contract_address)
     /\ o.input[i].contract_address # ""
     /\ (o.timedOut \/ o.results[j].kind # "stats")

\* C6: the batch enrichment returns every input record once, in input order,
\* with all-zero NFT fields where the lookup failed or missed the deadline;
\* and a waiting call can always go on (the gather returns, or the deadline
\* expires), whatever the lookups do.
C6_SameRecordsFailedAreZero ==
  /\ batch.pc = "done" =>
       /\ Len(batch.out) = Len(batch.input)
       /\ \A i \in 1..Len(batch.out) :
            /\ batch.out[i].transaction_hash = batch.input[i].transaction_hash
            /\ batch.out[i].tx_type = batch.input[i].tx_type
            /\ batch.out[i].contract_address = batch.input[i].contract_address
            /\ LookupFailed(batch, i) => AllNFTZero(batch.out[i])
  /\ batch.pc = "wait" => ENABLED (BatchGathered \/ BatchTimeout)

\* a batch call of two records returned after the deadline expired
C6_Witness ==
  /\ batch.pc = "done"
  /\ batch.timedOut
  /\ Len(batch.out) = 2
  /\ LookupFailed(batch, 1)

\* ------------------------------------------------- detection: C7 .. C10
\* the three category fetches of the account request have all ended
Fetched(r) ==
  /\ r.pc \in {"enrich", "llm", "done"}
  /\ Len(r.answers) = 3

\* a category fetch that failed: an exception (transport error, timeout,
\* non-2xx answer) or the upstream's NOTOK status
FetchFailed(answer) == answer \in {FetchException, FetchNotOk}

\* the request raised out of get_account_transactions
RaisedInFetch(r) == r.pc = "done" /\ r.response.status = 500 /\ r.steps = <<"fetch">>

\* ---- C7
\* C7 as claimed: an account request whose three category fetches have all
\* failed does not end with the successful no_data result: it ends with an
\* error.
C7_TotalFailureIsAnError ==
  (acct.pc = "done" /\ Fetched(acct) /\ \A i \in 1..3 : FetchFailed(acct.answers[i]))
    => (acct.response.status # 200 /\ acct.response.detection_mode # "no_data")

\* ---- C8
\* C8: when one or two of the three category fetches fail, the call does
\* not raise and returns exactly the rows of the categories that answered
\* with status "1", each once; a failed category contributes nothing.
FailedCategories == { i \in 1..3 : FetchFailed(acct.answers[i]) }

RowsOfAnswered ==
  UNION { { acct.answers[i].result[k].hash : k \in 1..Len(acct.answers[i].result) }
          : i \in { j \in 1..3 : acct.answers[j].status = "1" } }

C8_FailedCategoryIsolated ==
  (Fetched(acct) /\ Cardinality(FailedCategories) \in {1, 2})
    => /\ ~RaisedInFetch(acct)
       /\ LET returned == get_account_transactions(acct.answers, max_transactions).txns
          IN /\ { returned[k].transaction_hash : k \in 1..Len(returned) } = RowsOfAnswered
             /\ Len(returned) = Cardinality(RowsOfAnswered)
             /\ acct.pc # "done" \/ acct.response.detection_mode = "no_data"
                  => acct.all_transactions = returned
             /\ acct.response.detection_mode = "no_data" => returned = <<>>

\* one category raised, one answered NOTOK, and the row of the third goes on
\* to the enrichment
C8_Witness ==
  /\ acct.pc = "enrich"
  /\ acct.answers[1] = FetchException
  /\ acct.answers[2] = FetchNotOk
  /\ Len(acct.all_transactions) = 1
  /\ acct.all_transactions[1].transaction_hash = 13

\* ---- C9
\* C9: an account request whose fetch returned no transaction ends with the
\* no-data result (detection_mode no_data, null probability, count 0, a
\* message) and has run no step after the fetch: no enrichment, extraction,
\* normalization, inference or attribution.
C9_NoDataShortCircuit ==
  (Fetched(acct) /\ get_account_transactions(acct.answers, max_transactions).txns = <<>>)
    => /\ acct.pc = "done"
       /\ acct.steps = <<"fetch">>
       /\ acct.response.status = 200
       /\ acct.response.detection_mode = "no_data"
       /\ acct.response.account_scam_probability = "null"
       /\ acct.response.transactions_count = 0
       /\ acct.response.message # "absent"
       /\ batch.pc # "wait"

\* the upstream answered "No transactions found" for the three categories
C9_Witness ==
  /\ acct.pc = "done"
  /\ Fetched(acct)
  /\ \A i \in 1..3 : acct.answers[i] = FetchNoTransactions
  /\ acct.response.detection_mode = "no_data"

\* ---- C10
\* a request with explain_with_llm set and explain not set
LLMWithoutExplain(r) == r.pc # "idle" /\ r.explain_with_llm /\ ~r.explain

\* the request was answered 400 before any step
RejectedAtOnce(r) == r.pc = "done" /\ r.response.status = 400 /\ r.steps = <<>>

Predicted(r) == "predict" \in Range(r.steps)

\* C11 as claimed: a request that has computed its probability ends with the
\* result carrying it, whatever the attribution step and the LLM call do: a
\* raising explanation step does not fail the request.
C11_ExplanationFailureKeepsResult ==
  /\ (acct.pc = "done" /\ Predicted(acct))
       => (acct.response.status = 200 /\ acct.response.account_scam_probability \in Probabilities)
  /\ (txreq.pc = "done" /\ Predicted(txreq))
       => (txreq.response.status = 200
           /\ txreq.response.transaction_scam_probability \in Probabilities)

\* ---- C12
\* the call's own lookup for the contract of record i of its input returned
\* statistics before the deadline
OwnStatistics(o, i) ==
  { j \in 1..Len(o.uncached) :
      /\ o.input[i].contract_address # ""
      /\ o.uncached[j] = CollectionId(o.input[i].contract_address)
      /\ ~o.timedOut
      /\ o.results[j].kind = "stats" }

\* C12 as claimed: whatever the other call in flight does to the shared
\* negative cache, a call that got statistics for a contract from its own
\* lookup within the deadline returns its non-ERC-20 records of that
\* contract with those statistics applied.
C12_OwnStatisticsApplied ==
  \A o \in Ops :
    o.pc = "done" =>
      \A i \in 1..Len(o.input) :
        Lower(o.input[i].tx_type) # "erc20" =>
          \A j \in OwnStatistics(o, i) :
            o.out[i] = ApplyStats(o.input[i], o.results[j].stats)

\* ---- C13
\* the calls of one API that took their key from the pool, in order
PoolTakers(api) == SelectSeq(issued, LAMBDA c : c.api = api /\ c.sent /\ FromPool(c.api_key))

\* the k-th taker, counted from 0, got keys[k mod n]
RoundRobin(api, keys) ==
  keys # <<>> =>
    LET takers == PoolTakers(api) IN
    \A k \in 0..(Len(takers) - 1) : takers[k + 1].key = keys[(k % Len(keys)) + 1]

\* C13: with n >= 1 keys configured, the k-th call (k = 0, 1, ...) that takes
\* its key from the pool carries keys[k mod n], whatever calls with an
\* explicit key come in between; the pool wraps around.
C13_RoundRobin ==
  /\ RoundRobin("etherscan", _etherscan_keys)
  /\ RoundRobin("rarible", RARIBLE_API_KEYS)

\* two keys, three takers with a call with an explicit key in between: the
\* third taker got the first key again
C13_Witness ==
  /\ Len(_etherscan_keys) = 2
  /\ Len(PoolTakers("etherscan")) = 3
  /\ PoolTakers("etherscan")[3].key = _etherscan_keys[1]
  /\ \E i \in 1..Len(issued) : issued[i].api = "etherscan" /\ ~FromPool(issued[i].api_key)

\* ---- C14
\* the records the three category fetches of the returned call produced
FetchedRecords ==
  UNION { Range(CategoryList(_fetch_token_transactions(call.answers[i], Categories[i],
                                                       max_per_type)))
          : i \in 1..3 }

\* C14: get_account_transactions returns at most 10 records, ordered by
\* timestamp non-increasing, each a fetched record and none twice; it returns
\* 10 of them when more were fetched, and every fetched record left out has a
\* timestamp <= that of every record kept.
C14_MergedSortedCapped ==
  call.pc = "returned" =>
    LET out == call.out
        kept == Range(out)
    IN /\ Len(out) <= MAX_TOTAL_TRANSACTIONS
       /\ \A k \in 1..(Len(out) - 1) : out[k].timestamp >= out[k + 1].timestamp
       /\ kept \subseteq FetchedRecords
       /\ Cardinality(kept) = Len(out)
       /\ Cardinality(FetchedRecords) > MAX_TOTAL_TRANSACTIONS
            => Len(out) = MAX_TOTAL_TRANSACTIONS
       /\ Cardinality(FetchedRecords) <= MAX_TOTAL_TRANSACTIONS => kept = FetchedRecords
       /\ \A x \in FetchedRecords \ kept : \A y \in kept : x.timestamp <= y.timestamp

\* twelve records fetched with different timestamps, ten returned
C14_Witness ==
  /\ call.pc = "returned"
  /\ Cardinality(FetchedRecords) = 12
  /\ Len(call.out) = 10
  /\ call.out[1].timestamp > call.out[10].timestamp
  /\ call.out[1].transaction_hash > 200

\* ---- C15
\* the returned records of category i (the hash of a row tells its page)
ReturnedOf(i) ==
  { k \in 1..Len(call.out) : call.out[k].transaction_hash \div 100 = i }

\* C15 as claimed: a call with max_txns = m returns at most m records of each
\* of the three categories.
C15_CapIsTheArgument ==
  call.pc = "returned" =>
    \A i \in 1..3 : Cardinality(ReturnedOf(i)) <= call.max_txns

\* ---- C16
\* the request was answered with a result payload
Answered(r) == r.pc = "done" /\ r.response.status = 200

\* C16 as claimed: every result payload carries detection_mode: no_data
\* exactly when no transaction was fetched, transaction_only for a
\* transaction result, normal for an account result with a probability.
C16_EveryResultIsTagged ==
  /\ Answered(acct) =>
       /\ acct.response.detection_mode \in {"normal", "no_data"}
       /\ acct.response.detection_mode = "no_data"
            <=> get_account_transactions(acct.answers, max_transactions).txns = <<>>
       /\ acct.response.account_scam_probability \in Probabilities
            => acct.response.detection_mode = "normal"
  /\ Answered(txreq) => txreq.response.detection_mode = "transaction_only"

\* C16, amended: the no-data result is tagged no_data (exactly when no
\* transaction was fetched) and every transaction result transaction_only;
\* an account result that carries a probability has no detection_mode key.
C16_NormalResultIsUntagged ==
  /\ Answered(acct) =>
       /\ acct.response.detection_mode \in {"absent", "no_data"}
       /\ acct.response.detection_mode = "no_data"
            <=> get_account_transactions(acct.answers, max_transactions).txns = <<>>
       /\ acct.response.account_scam_probability \in Probabilities
            <=> acct.response.detection_mode = "absent"
  /\ Answered(txreq) =>
       /\ txreq.response.detection_mode = "transaction_only"
       /\ txreq.response.transaction_scam_probability \in Probabilities

\* an account result with a probability
C16_Witness ==
  /\ Answered(acct)
  /\ acct.response.account_scam_probability \in Probabilities
  /\ acct.response.detection_mode = "absent"

\* ---- C17
\* C17: a transaction request with pending-transaction fields makes no
\* chain-data call; only a request with a hash starts with the lookup by hash;
\* a request with neither is answered 400 before any call; every result is
\* about exactly one transaction, enriched by the single-record call.
C17_PendingSkipsFetch ==
  /\ txreq.body = "pending" => ~("fetch" \in Range(txreq.steps))
  /\ "fetch" \in Range(txreq.steps) => txreq.body = "hash"
  /\ (txreq.body = "hash" /\ txreq.pc # "idle") => txreq.steps[1] = "fetch"
  /\ txreq.body = "neither" =>
       /\ txreq.pc = "done"
       /\ txreq.response.status = 400
       /\ txreq.steps = <<>>
  /\ txreq.pc = "enrich" => Len(single.input) = 1
  /\ (txreq.pc = "done" /\ txreq.response.status = 200) =>
       /\ txreq.response.transactions_count = 1
       /\ single.pc = "done"

\* a pending transaction answered with a result
C17_Witness ==
  /\ txreq.pc = "done"
  /\ txreq.body = "pending"
  /\ txreq.response.status = 200
  /\ txreq.steps[1] = "enrich"

\* ---- C18
\* C18 as claimed: with an empty credential list, every call of the API's
\* client function is sent to the network and carries the placeholder key
\* "": no call ends with an error raised before the request is sent.
C18_PlaceholderKeySent ==
  \A i \in 1..Len(issued) :
    LET keys == IF issued[i].api = "etherscan" THEN _etherscan_keys ELSE RARIBLE_API_KEYS
    IN keys = <<>> => (issued[i].sent /\ issued[i].key = "")

\* C18, amended: with an empty list the Etherscan calls are sent with the
\* placeholder key ""; the Rarible calls are not sent at all: rarible_get
\* raises before the request and its placeholder pool is never read.
C18_PlaceholderEtherscanOnly ==
  \A i \in 1..Len(issued) :
    /\ (issued[i].api = "etherscan" /\ _etherscan_keys = <<>>)
         => (issued[i].sent /\ issued[i].key = "")
    /\ (issued[i].api = "rarible" /\ RARIBLE_API_KEYS = <<>>) => ~issued[i].sent
    /\ RARIBLE_API_KEYS = <<>> => _rarible_cycle = 0

\* both lists empty, a call of each function made
C18_Witness ==
  /\ _etherscan_keys = <<>>
  /\ RARIBLE_API_KEYS = <<>>
  /\ \E i, j \in 1..Len(issued) : issued[i].api = "etherscan" /\ issued[j].api = "rarible"

\* ---- C19
\* the records of the call's list sent by / sent to the subject address
SentBySubject ==
  {i \in 1..Len(call.transactions) :
     AddressLower(call.transactions[i].from_address) = AddressLower(call.account_address)}
SentToSubject ==
  {i \in 1..Len(call.transactions) :
     AddressLower(call.transactions[i].to_address) = AddressLower(call.account_address)}
GiftsToSubject ==
  {i \in SentToSubject :
     call.transactions[i].value = 0 /\ call.transactions[i].token_value > 0}

\* a / b as fractions, b # 0
SameFraction(x, a, b) == x.kind = "num" /\ x.den # 0 /\ x.num * b = a * x.den

\* C19: both feature functions return, without raising, a vector of exactly
\* 15 numbers; for the empty list every entry is 0; the three ratios of the
\* account vector are |in| / max(|out|, 1), |out| / max(|in|, 1) and
\* |gift_in| / max(|in|, 1).
C19_FifteenFeaturesNoDivisionError ==
  call.pc \in {"account_features", "transaction_features"} =>
    /\ ~call.out.raised
    /\ Len(call.out.features) = 15
    /\ \A i \in 1..15 : call.out.features[i].kind \in {"num", "sqrt"} /\ call.out.features[i].den # 0
    /\ call.transactions = <<>> => \A i \in 1..15 : call.out.features[i].num = 0
    /\ call.pc = "account_features" =>
         LET in == Cardinality(SentToSubject)
             out == Cardinality(SentBySubject)
             f == call.out.features
         IN /\ SameFraction(f[7], in, IF out >= 1 THEN out ELSE 1)
            /\ SameFraction(f[14], out, IF in >= 1 THEN in ELSE 1)
            /\ SameFraction(f[11], Cardinality(GiftsToSubject), IF in >= 1 THEN in ELSE 1)

\* an account with incoming and no outgoing records, and a gift among them
C19_Witness ==
  /\ call.pc = "account_features"
  /\ SentBySubject = {}
  /\ Cardinality(SentToSubject) = 2
  /\ GiftsToSubject # {}
  /\ ~call.out.raised
  /\ call.out.features[7].num = 2

\* ---- C20
\* the statistics of the call cannot be used for its vector
StatisticsUnusable ==
  \/ ~call.stats.loaded
  \/ ~call.stats.has_task
  \/ Len(call.stats.mean) # Len(call.features)
  \/ Len(call.stats.std) # Len(call.features)

\* C20: scale_features does not raise because of the statistics: when they
\* are absent, or their mean list or their std list has not the length of the
\* vector, the fallback scaling is returned, with the shape of the input.
C20_MismatchFallsBack ==
  (call.pc = "scaled" /\ StatisticsUnusable) =>
    /\ ~call.out.raised
    /\ call.out.path = "fallback"
    /\ Len(call.out.scaled) = Len(call.features)

\* C20, the part that holds: absent statistics, or a mean list of another
\* length than the vector, give the fallback scaling.
C20_MeanMismatchFallsBack ==
  (call.pc = "scaled" /\ (~call.stats.loaded \/ ~call.stats.has_task
                            \/ Len(call.stats.mean) # Len(call.features))) =>
    /\ ~call.out.raised
    /\ call.out.path = "fallback"
    /\ Len(call.out.scaled) = Len(call.features)

\* C20, the failing case: a std list of another length raises
C20_StdMismatchRaised ==
  /\ call.pc = "scaled"
  /\ Len(call.stats.mean) = Len(call.features)
  /\ Len(call.stats.std) # Len(call.features)
  /\ call.out.raised

\* ---- C21
\* the value scale_features must give for entry i on the statistics path:
\* (x - mean) / std with a std of 0 replaced by 1, x being log1p of a value
\* above 1e10
ExpectedStandardized(i) ==
  LET std == IF call.stats.std[i] > 0 THEN call.stats.std[i] ELSE 1
  IN IF call.features[i].big THEN LogRat(0 - call.stats.mean[i], std)
     ELSE Rat(call.features[i].x - call.stats.mean[i], std)

\* the value for entry i on the single-sample path: the input, log1p of it
\* when above 1e10, clipped to [-5, 15]
ExpectedClipped(i) ==
  IF call.features[i].big THEN Rat(15, 1)
  ELSE IF call.features[i].x < -5 THEN Rat(-5, 1)
  ELSE IF call.features[i].x > 15 THEN Rat(15, 1)
  ELSE Rat(call.features[i].x, 1)

StatisticsMatch ==
  /\ call.stats.loaded
  /\ call.stats.has_task
  /\ Len(call.stats.mean) = Len(call.features)
  /\ Len(call.stats.std) = Len(call.features)

\* C21: scale_features replaces every value above 1e10 by its log1p, then
\* gives (x - mean) / std (std <= 1e-8 replaced by 1) when the statistics of
\* the task are present and of the vector's length, and otherwise, for one
\* sample, the values clipped to [-5, 15].
C21_ThreeTierPrecedence ==
  call.pc = "scaled" =>
    /\ ~call.out.raised
    /\ Len(call.out.scaled) = Len(call.features)
    /\ IF StatisticsMatch
       THEN /\ call.out.path = "statistics"
            /\ \A i \in 1..Len(call.features) : call.out.scaled[i] = ExpectedStandardized(i)
       ELSE /\ call.out.path = "fallback"
            /\ \A i \in 1..Len(call.features) :
                 /\ call.out.scaled[i] = ExpectedClipped(i)
                 /\ call.out.scaled[i].num >= -5 /\ call.out.scaled[i].num <= 15

\* C21, the part that holds: the same, leaving out the calls whose mean list
\* has the vector's length and whose std list has not.
C21_PrecedenceWhenStdHasTheLength ==
  (call.pc = "scaled" /\ (StatisticsMatch \/ ~call.stats.has_task
                            \/ Len(call.stats.mean) # Len(call.features))) =>
    /\ ~call.out.raised
    /\ Len(call.out.scaled) = Len(call.features)
    /\ IF StatisticsMatch
       THEN /\ call.out.path = "statistics"
            /\ \A i \in 1..Len(call.features) : call.out.scaled[i] = ExpectedStandardized(i)
       ELSE /\ call.out.path = "fallback"
            /\ \A i \in 1..Len(call.features) : call.out.scaled[i] = ExpectedClipped(i)

\* ---- C22
\* no value of the vector is above 1e10: no log-compression
NoLogCompression == \A i \in 1..Len(call.features) : ~call.features[i].big

\* scaled[i] * std[i] + mean[i] = v[i], on fractions
RoundTrip(i) ==
  LET y == call.out.scaled[i]
  IN /\ y.kind = "num"
     /\ y.den # 0
     /\ y.num * call.stats.std[i] + call.stats.mean[i] * y.den = call.features[i].x * y.den

\* C22 as claimed: for every raw vector v without a value above 1e10 and
\* every matching statistics, scale_features(v) * std + mean = v.
C22_RoundTrip ==
  (call.pc = "scaled" /\ StatisticsMatch /\ NoLogCompression) =>
    /\ ~call.out.raised
    /\ \A i \in 1..Len(call.features) : RoundTrip(i)

\* C22, amended: the round trip holds for the entries whose std is above
\* 1e-8; an entry whose std is not comes back as v - mean, since its std was
\* replaced by 1.
C22_RoundTripWherePositiveStd ==
  (call.pc = "scaled" /\ StatisticsMatch /\ NoLogCompression) =>
    /\ ~call.out.raised
    /\ \A i \in 1..Len(call.features) :
         IF call.stats.std[i] > 0 THEN RoundTrip(i)
         ELSE call.out.scaled[i] = Rat(call.features[i].x - call.stats.mean[i], 1)

\* a vector standardized with a non-zero mean and positive stds
C22_Witness ==
  /\ call.pc = "scaled"
  /\ StatisticsMatch
  /\ NoLogCompression
  /\ call.out.path = "statistics"
  /\ \A i \in 1..Len(call.features) : call.stats.std[i] > 0 /\ call.stats.mean[i] # 0

\* ---- C23
\* the importance the ranking is about: |gradient| or SHAP value of feature k
RankedScore(k) ==
  IF call.pc = "fast_explained" THEN Abs(call.scores[k]) ELSE call.scores[k]

\* the features named in the returned list
Included == {call.ranked[j].feature_name : j \in 1..Len(call.ranked)}

\* C23: both strategies return exactly min(5, n) entries, ordered by
\* non-increasing absolute importance, no omitted feature outranking an
\* included one, each entry with the name, importance and value of its own
\* feature; the raw vector keeps one entry per feature in schema order.
C23_TopFiveByAbsoluteImportance ==
  call.pc \in {"fast_explained", "shap_explained"} =>
    LET n == Len(call.scores)
        fi == call.ranked
    IN /\ Len(fi) = (IF n < 5 THEN n ELSE 5)
       /\ Cardinality(Included) = Len(fi)
       /\ \A j \in 1..Len(fi) :
            /\ fi[j].feature_name \in 1..n
            /\ fi[j].shap_value = RankedScore(fi[j].feature_name)
            /\ fi[j].feature_value = 10 * fi[j].feature_name
       /\ \A j \in 1..(Len(fi) - 1) : Abs(fi[j].shap_value) >= Abs(fi[j + 1].shap_value)
       /\ \A k \in (1..n) \ Included, j \in 1..Len(fi) :
            Abs(call.scores[k]) <= Abs(fi[j].shap_value)
       /\ IF call.pc = "fast_explained"
          THEN call.out.raw_importance_scores = [k \in 1..n |-> Abs(call.scores[k])]
          ELSE call.out.raw_shap_values = <<call.scores>>

\* six SHAP values, a negative one ranked first and a feature left out
C23_Witness ==
  /\ call.pc = "shap_explained"
  /\ Len(call.scores) = 6
  /\ Len(call.ranked) = 5
  /\ call.ranked[1].shap_value < 0
  /\ call.ranked[2].shap_value > 0

\* ---- C29
\* C29: in the gradient strategy every raw importance is >= 0, and so is
\* every shap_value forwarded to the response and to the LLM explainer; the
\* normalized importances are each in [0, 1] and sum to 1 when the raw total
\* is > 0, and are the all-zero raw vector when the raw total is 0.
C29_GradientImportanceNonNegative ==
  call.pc = "fast_explained" =>
    LET raw == call.out.raw_importance_scores
        norm == call.out.normalized_importance_scores
        n == Len(call.scores)
        total == SumSeq(raw)
    IN /\ Len(raw) = n /\ Len(norm) = n
       /\ \A k \in 1..n : raw[k] >= 0
       /\ \A j \in 1..Len(call.ranked) : call.ranked[j].shap_value >= 0
       /\ \A j \in 1..Len(call.out.feature_importance) :
            call.out.feature_importance[j].importance_score >= 0
       /\ IF total > 0
          THEN /\ \A k \in 1..n : /\ norm[k].kind = "num"
                                  /\ norm[k].den = total
                                  /\ norm[k].num = raw[k]
                                  /\ 0 <= norm[k].num /\ norm[k].num <= norm[k].den
               /\ SumSeq([k \in 1..n |-> norm[k].num]) = total
          ELSE \A k \in 1..n : raw[k] = 0 /\ norm[k] = Rat(0, 1)

\* a negative gradient among the top entries of a vector with a positive total
C29_Witness ==
  /\ call.pc = "fast_explained"
  /\ \E k \in 1..Len(call.scores) : call.scores[k] < 0 /\ call.ranked[1].feature_name = k
  /\ \E k \in 1..Len(call.scores) : call.scores[k] > 0
  /\ call.ranked[1].shap_value > 0

\* ---- C24
\* C24 as claimed: enrich_transaction_with_nft_data on a transaction with an
\* empty contract_address issues no network call and returns the record it
\* was given, no field added, removed or modified.
C24_NoContractUnchanged ==
  (single.pc = "done" /\ single.input[1].contract_address = "") =>
    /\ single.sent = <<>>
    /\ single.out = single.input

\* C24, the part that holds: no network call, and the record comes back with
\* its nine NFT fields at 0 and every other field as given.
C24_NoContractDefaults ==
  (single.pc = "done" /\ single.input[1].contract_address = "") =>
    /\ single.sent = <<>>
    /\ single.out = <<_set_default_nft_fields(single.input[1])>>

\* ---- C25
\* the request gives value 0
ZeroValueRequest == call.body.value \in {"0", "0x0", "000"}

\* the request names setApprovalForAll in function_call, or gives no
\* function_call and an input of at least ten characters that starts with
\* the selector 0xa22cb465
ApprovalForAllRequest ==
  \/ \E i \in 1..Len(call.body.function_call) : call.body.function_call[i] = "setApprovalForAll"
  \/ /\ call.body.function_call = <<>>
     /\ call.body.input.length >= 10
     /\ call.body.input.selector \in {"0xa22cb465", "0xA22CB465"}

\* C25: a pending request with value 0 and a setApprovalForAll call gives a
\* transaction feature vector with is_zero_value = 1 and has_suspicious_func
\* = 1, whatever the enrichment returned.
C25_ApprovalForAllZeroValue ==
  (call.pc = "pending_features" /\ ZeroValueRequest /\ ApprovalForAllRequest) =>
    /\ ~call.out.raised
    /\ call.out.features[15] = Rat(1, 1)
    /\ call.out.features[5] = Rat(1, 1)

\* the call decoded from the input, statistics applied by the enrichment
C25_Witness ==
  /\ call.pc = "pending_features"
  /\ ZeroValueRequest
  /\ call.body.function_call = <<>>
  /\ call.body.input = Input("0xA22CB465", 138)
  /\ call.enriched.nft_num_owners > 0
  /\ call.out.features[5] = Rat(1, 1)

\* ---- C26
\* entry i of the call's list is the first one in the currency cur
FirstIn(cur, i) ==
  /\ i \in 1..Len(call.price_list.items)
  /\ Upper(call.price_list.items[i].currency) = cur
  /\ \A j \in 1..(i - 1) : Upper(call.price_list.items[j].currency) # cur

HasEntryIn(cur) == \E i \in 1..Len(call.price_list.items) : FirstIn(cur, i)

\* C26: _extract_eth_value returns the value of the first ETH entry when
\* there is one, wherever the USD entries stand; otherwise the first USD
\* entry's value divided by 2000 when that value is > 0; and 0 for an empty
\* list, None, a value that is not a list, and a list with neither currency.
C26_EthFirstThenUsd ==
  call.pc = "extracted" =>
    LET items == call.price_list.items IN
    /\ \A i \in 1..Len(items) :
         (call.price_list.kind = "list" /\ FirstIn("ETH", i)) => call.out = items[i].value
    /\ \A i \in 1..Len(items) :
         (call.price_list.kind = "list" /\ ~HasEntryIn("ETH") /\ FirstIn("USD", i)
            /\ items[i].value > 0) => call.out * 2000 = items[i].value
    /\ (call.price_list.kind # "list" \/ items = <<>>
          \/ (~HasEntryIn("ETH") /\ ~HasEntryIn("USD"))) => call.out = 0

\* an ETH entry after two USD entries gives the ETH value
C26_Witness ==
  /\ call.pc = "extracted"
  /\ Len(call.price_list.items) = 3
  /\ FirstIn("USD", 1)
  /\ call.price_list.items[1].value > 0
  /\ FirstIn("ETH", 3)
  /\ call.price_list.items[3].value = -4000
  /\ call.out = -4000

\* ---- C27
\* s is a prefix of t
IsPrefix(s, t) == Len(s) <= Len(t) /\ s = SubSeq(t, 1, Len(s))

\* the steps of a complete detect_account run with the request's flags
AccountSteps(r) ==
  <<"fetch", "enrich", "extract", "normalize", "predict">>
    \o (IF r.explain \/ r.explain_with_llm THEN <<"attribute">> ELSE <<>>)
    \o (IF r.explain_with_llm /\ llm_explainer = "ready" THEN <<"llm">> ELSE <<>>)

\* the account run has fetched at least one transaction
FetchedSome == acct.pc \in {"enrich", "llm", "done"} /\ acct.all_transactions # <<>>

\* a step that starts an account request
AccountRequestStarts == acct.pc \in {"idle", "done"} /\ acct'.pc = "fetch"

FullPage(result) ==
  result.kind = "json" /\ result.status = "1" /\ result.is_list /\ result.rows >= offset

\* ceil(max_txns / 100), 0 for max_txns <= 0
MostRequests(max_txns) == IF max_txns <= 0 THEN 0 ELSE (max_txns + offset - 1) \div offset

InPaging == call # NoCall /\ call.pc \in {"await", "returned", "raised"}

\* C28: _fetch_token_transactions ends when every request is answered; it
\* returns at most max_txns records (none for max_txns <= 0), asks for the
\* pages 1, 2, 3, ... in this order, goes on only after a page of status "1"
\* whose result is a list of at least 100 rows, and sends at most
\* ceil(max_txns / 100) requests, none when max_txns <= 0.
C28_PagingEnds ==
  /\ [](InPaging =>
          /\ call.transactions >= 0
          /\ (call.max_txns > 0 => call.transactions <= call.max_txns)
          /\ (call.max_txns <= 0 => call.transactions = 0 /\ call.requested = <<>>)
          /\ \A i \in 1..Len(call.requested) : call.requested[i] = i
          /\ Len(call.requested) <= MostRequests(call.max_txns)
          /\ Len(call.requested) = Len(call.answers) + (IF call.pc = "await" THEN 1 ELSE 0)
          /\ \A i \in 1..Len(call.answers) :
               FullPage(call.answers[i]) \/ (i = Len(call.answers) /\ call.pc # "await"))
  /\ [](InPaging => <>(call.pc \in {"returned", "raised"}))

\* the last of several pages is a short one
C28_Witness ==
  /\ InPaging
  /\ call.pc = "returned"
  /\ Len(call.requested) = 2
  /\ call.answers[2] = PageOk(1)
  /\ call.transactions = offset + 1

\* ---- C30
IsShapExplainer == call # NoCall /\ call.pc = "shap"

\* C30: after any sequence of prepare_background_data and explain_prediction
\* calls on one SHAPExplainer the background has at most
\* background_data_size rows, no key has two cached explainers, every cached
\* explainer was built on the current background, and the explanation just
\* computed used an explainer built on the current background.
C30_CacheFollowsBackground ==
  IsShapExplainer =>
    /\ Len(call.background_data.rows) <= background_data_size
    /\ \A c, d \in call.explainers : c.key = d.key => c = d
    /\ \A c \in call.explainers :
         ~call.background_data.is_none /\ c.built_on = call.background_data.rows
    /\ (call.op = "explain" => call.used = call.background_data)

\* explainers cached for two keys after a change of background emptied the cache
C30_Witness ==
  /\ IsShapExplainer
  /\ call.emptied
  /\ call.op = "explain"
  /\ Cardinality(call.explainers) = 2
  /\ Len(call.background_data.rows) = background_data_size

====
